---- MODULE Spec2Model ----
(***************************************************************************)
(* The persistent key-value store of ut_components/kv.py (class KV): one   *)
(* SQLite table kv(key PRIMARY KEY, value, ttl) shared by every session,   *)
(* and per session the connection and the batched-write buffer             *)
(* (cache_values, cache_row_count); and the memoization layer built on it  *)
(* in ut_components/memoize.py (memoize, delete_memoized).                 *)
(*                                                                         *)
(* Strings that the code inspects character by character (keys, prefixes,  *)
(* serialized values) are sequences of one-character strings.  Python      *)
(* values are named by their Python literal ("None", "0", "'x'", ...).     *)
(***************************************************************************)
EXTENDS Integers, Sequences, FiniteSets, TLC

(***************************************************************************)
(* Bounds of the model.                                                    *)
(***************************************************************************)
\* The wall clock advances in ticks; TicksPerSecond ticks make one second,
\* so that the truncation int(...timestamp()) of the code is visible.
TicksPerSecond == 2
\* The clock stops at MaxClock ticks.
MaxClock == 4
\* At most MaxRows rows are buffered by put_cached before a flush.
MaxRows == 2

\* Python None / SQL NULL in an integer position (ttl_seconds, column ttl).
None == -1

Sessions == {"s1", "s2"}

\* Keys written by the callers.
Keys == {<<"a", "b">>, <<"A", "b">>, <<"b", "a">>}
\* A key of a Python type sqlite3 cannot bind as a parameter (a list).
UnbindableKey == <<"[", "]">>
\* Prefixes passed to get_partial and delete_partial.
Prefixes == {<<>>, <<"a">>, <<"a", "_">>, <<"%", "a">>, <<"b">>}

\* Values passed to put and put_cached; "set()" is not JSON serializable.
Values == {"None", "0", "'x'"}
UnserializableValue == "set()"
\* The values Python takes as false in a condition, None apart.
FalsyValues == {"False", "0", "''", "[]"}
\* Every value of the model that json.dumps serializes.
AllValues == {"None", "'x'"} \cup FalsyValues
\* Defaults passed to get.
Defaults == {"None", "'d'"}
\* ttl_seconds arguments: omitted (None), 0, and positive durations.
TtlArgs == {None, 0, 1}

VARIABLES
    clock,            \* datetime.now(), in ticks
    table,            \* committed rows of table kv: a set of [key, value, ttl]
    is_open,          \* is_open[s]: the KV object of session s holds an open connection
    uncommitted,      \* uncommitted[s]: rows written on the connection and not yet committed
    cache_values,     \* cache_values[s]: the flat list key, value, ttl, key, value, ttl, ...
    cache_row_count,  \* cache_row_count[s]
    wrote,            \* wrote[k]: the last direct put of k, while nothing else has touched k
                      \* (for a memoized record k: the call that stored it)
    last              \* the last call: its arguments, its result, what it raised

vars == <<clock, table, is_open, uncommitted, cache_values, cache_row_count, wrote, last>>

(***************************************************************************)
(* json.dumps / json.loads on the values of the model.                     *)
(***************************************************************************)
json_dumps(v) ==
    CASE v = "None"  -> <<"n", "u", "l", "l">>
      [] v = "False" -> <<"f", "a", "l", "s", "e">>
      [] v = "True"  -> <<"t", "r", "u", "e">>
      [] v = "0"     -> <<"0">>
      [] v = "''"    -> <<"\"", "\"">>
      [] v = "'x'"   -> <<"\"", "x", "\"">>
      [] v = "'d'"   -> <<"\"", "d", "\"">>
      [] v = "[]"    -> <<"[", "]">>
      [] v = "'bitwarden.com'" -> <<"\"">> \o <<"b", "i", "t", "w", "a", "r", "d", "e", "n", ".", "c", "o", "m">> \o <<"\"">>

json_loads(t) ==
    CASE t = <<"n", "u", "l", "l">>      -> "None"
      [] t = <<"f", "a", "l", "s", "e">> -> "False"
      [] t = <<"t", "r", "u", "e">>      -> "True"
      [] t = <<"0">>                     -> "0"
      [] t = <<"\"", "\"">>              -> "''"
      [] t = <<"\"", "x", "\"">>         -> "'x'"
      [] t = <<"\"", "d", "\"">>         -> "'d'"
      [] t = <<"[", "]">>                -> "[]"
      [] t = <<"\"">> \o <<"b", "i", "t", "w", "a", "r", "d", "e", "n", ".", "c", "o", "m">> \o <<"\"">> -> "'bitwarden.com'"

Serializable(v) == v # UnserializableValue

\* The text  {"value":   that json.dumps writes before the payload.
ValueOpen == <<"{", "\"", "v", "a", "l", "u", "e", "\"", ":", " ">>

\* KV._encode_value: json.dumps({"value": value})
_encode_value(value) == ValueOpen \o json_dumps(value) \o <<"}">>

\* KV._decode_value: json.loads(value).get("value", None)
_decode_value(value) ==
    IF Len(value) > Len(ValueOpen) /\ SubSeq(value, 1, Len(ValueOpen)) = ValueOpen
    THEN json_loads(SubSeq(value, Len(ValueOpen) + 1, Len(value) - 1))
    ELSE "None"

(***************************************************************************)
(* SQLite: the statements of kv.py.                                        *)
(***************************************************************************)
\* ASCII case folding of LIKE.
Lower(c) == CASE c = "A" -> "a" [] c = "B" -> "b" [] OTHER -> c

\* x LIKE pat : % matches any run of characters, _ any one character, every
\* other character matches itself without regard to ASCII case.
RECURSIVE Like(_, _)
Like(pat, str) ==
    IF pat = <<>> THEN str = <<>>
    ELSE IF Head(pat) = "%"
         THEN Like(Tail(pat), str) \/ (str # <<>> /\ Like(pat, Tail(str)))
         ELSE /\ str # <<>>
              /\ (Head(pat) = "_" \/ Lower(Head(pat)) = Lower(Head(str)))
              /\ Like(Tail(pat), Tail(str))

\* key LIKE ? || '%'
KeyLikePrefix(key, beginning) == Like(beginning \o <<"%">>, key)

\* Variant: the comparison written ttl >= ?
UnexpiredInclusive(row, now_seconds) == row.ttl = None \/ row.ttl >= now_seconds

\* (ttl IS NULL OR ttl > ?)
Unexpired(row, now_seconds) == row.ttl = None \/ row.ttl > now_seconds

\* Variant: an update of the value alone when the key is stored, the ttl of
\* the old row kept
InsertOrReplaceKeepingTtl(rows, row) ==
    LET old == {r \in rows : r.key = row.key} IN
    {r \in rows : r.key # row.key}
        \cup {IF old = {} THEN row ELSE [row EXCEPT !.ttl = (CHOOSE r \in old : TRUE).ttl]}

\* Variant: a plain insert into a table whose key column is not unique
InsertKeepingOld(rows, row) == rows \cup {row}

\* INSERT OR REPLACE of one row: key is the PRIMARY KEY, so the row that
\* holds the same key is deleted before the new row is inserted.
InsertOrReplace(rows, row) == {r \in rows : r.key # row.key} \cup {row}

\* Variant: INSERT OR IGNORE, a row whose key is stored is not inserted, so
\* the first row of a key stays
RECURSIVE InsertOrIgnoreAll(_, _)
InsertOrIgnoreAll(rows, new) ==
    IF new = <<>> THEN rows
    ELSE InsertOrIgnoreAll(IF \E r \in rows : r.key = Head(new).key
                           THEN rows ELSE rows \cup {Head(new)},
                           Tail(new))

\* A multi-row VALUES list inserts its rows in order.
RECURSIVE InsertOrReplaceAll(_, _)
InsertOrReplaceAll(rows, new) ==
    IF new = <<>> THEN rows
    ELSE InsertOrReplaceAll(InsertOrReplace(rows, Head(new)), Tail(new))

\* sqlite3 binds str, int and None; for any other Python object execute raises
\* (InterfaceError, ProgrammingError since Python 3.11) while binding.
Bindable(key) == key # UnbindableKey

\* What the connection of a session reads: the committed table with its own
\* uncommitted rows on top.
View(committed, pending) == InsertOrReplaceAll(committed, pending)

\* int(datetime.now().timestamp())
NowSeconds(ticks) == ticks \div TicksPerSecond

\* int((datetime.now() + timedelta(seconds=ttl_seconds)).timestamp())
ExpiryOf(ticks, ttl_seconds) == (ticks + ttl_seconds * TicksPerSecond) \div TicksPerSecond

\* Variant: an omitted ttl_seconds taken as 0 seconds instead of no expiry
TtlColumnNoneAsZero(ticks, ttl_seconds) ==
    ExpiryOf(ticks, IF ttl_seconds = None THEN 0 ELSE ttl_seconds)

\* `if ttl_seconds:` of put and put_cached
TtlColumn(ticks, ttl_seconds) ==
    IF ttl_seconds # None /\ ttl_seconds # 0 THEN ExpiryOf(ticks, ttl_seconds) ELSE None


(***************************************************************************)
(* cursor.execute: the parameters are bound before the statement is        *)
(* stepped, so a statement whose parameters cannot be bound writes no row. *)
(***************************************************************************)
\* Row i of a flat parameter list key, value, ttl, key, value, ttl, ...
ParamRow(params, i) ==
    [key |-> params[3 * i - 2], value |-> params[3 * i - 1], ttl |-> params[3 * i]]

ParamRows(params, nrows) == [i \in 1..nrows |-> ParamRow(params, i)]

\* Variant: the rows executed one statement at a time, so the rows before
\* the first one that cannot be bound are written when the call raises
ExecuteInsertRowByRow(pending, params, nrows) ==
    IF Len(params) # 3 * nrows
    THEN [raised |-> "ProgrammingError", uncommitted |-> pending]
    ELSE LET bad == {i \in 1..nrows : ~Bindable(params[3 * i - 2])} IN
         IF bad # {}
         THEN LET first == CHOOSE i \in bad : \A j \in bad : i <= j IN
              [raised |-> "InterfaceError",
               uncommitted |-> pending \o ParamRows(params, first - 1)]
         ELSE [raised |-> "", uncommitted |-> pending \o ParamRows(params, nrows)]

\* INSERT OR REPLACE INTO kv (key, value, ttl) VALUES (?, ?, ?), ... with
\* nrows placeholder groups, on a connection holding `pending`.
ExecuteInsert(pending, params, nrows) ==
    IF Len(params) # 3 * nrows
    THEN [raised |-> "ProgrammingError", uncommitted |-> pending]
    ELSE IF \E i \in 1..nrows : ~Bindable(params[3 * i - 2])
    THEN [raised |-> "InterfaceError", uncommitted |-> pending]
    ELSE [raised |-> "", uncommitted |-> pending \o ParamRows(params, nrows)]

(***************************************************************************)
(* The methods of KV, as functions of the state they read.                 *)
(***************************************************************************)
\* KV.put
put(committed, pending, ticks, key, value, ttl_seconds) ==
    LET ttl == TtlColumn(ticks, ttl_seconds) IN
    IF ~Serializable(value)
    THEN [raised |-> "TypeError", table |-> committed, uncommitted |-> pending]
    ELSE LET ex == ExecuteInsert(pending, <<key, _encode_value(value), ttl>>, 1) IN
         IF ex.raised # ""
         THEN [raised |-> ex.raised, table |-> committed, uncommitted |-> ex.uncommitted]
         ELSE [raised |-> "", table |-> View(committed, ex.uncommitted),
               uncommitted |-> <<>>]

\* SELECT value FROM kv WHERE key = ? AND (ttl IS NULL OR ttl > ?)
SelectValue(rows, key, now_seconds) ==
    {r \in rows : r.key = key /\ Unexpired(r, now_seconds)}

\* Variant: the test for a missing row made on the decoded value
get_testing_decoded_value(committed, pending, ticks, key, default, save_default_if_not_set) ==
    LET now_seconds == NowSeconds(ticks)
        found == SelectValue(View(committed, pending), key, now_seconds)
        result == IF found # {} THEN (CHOOSE r \in found : TRUE).value ELSE <<>>
    IN  IF result = <<>> \/ _decode_value(result) \in FalsyValues \cup {"None"}
        THEN IF save_default_if_not_set
             THEN LET p == put(committed, pending, ticks, key, default, None) IN
                  [raised |-> p.raised, table |-> p.table, uncommitted |-> p.uncommitted,
                   result |-> default, saved |-> p.raised = ""]
             ELSE [raised |-> "", table |-> committed, uncommitted |-> pending,
                   result |-> default, saved |-> FALSE]
        ELSE [raised |-> "", table |-> committed, uncommitted |-> pending,
              result |-> _decode_value(result), saved |-> FALSE]

\* Variant: the default saved with the ttl of one second
get_saving_with_ttl(committed, pending, ticks, key, default, save_default_if_not_set) ==
    LET now_seconds == NowSeconds(ticks)
        found == SelectValue(View(committed, pending), key, now_seconds)
        result == IF found # {} THEN (CHOOSE r \in found : TRUE).value ELSE <<>>
    IN  IF result = <<>>
        THEN IF save_default_if_not_set
             THEN LET p == put(committed, pending, ticks, key, default, 1) IN
                  [raised |-> p.raised, table |-> p.table, uncommitted |-> p.uncommitted,
                   result |-> default, saved |-> p.raised = ""]
             ELSE [raised |-> "", table |-> committed, uncommitted |-> pending,
                   result |-> default, saved |-> FALSE]
        ELSE [raised |-> "", table |-> committed, uncommitted |-> pending,
              result |-> _decode_value(result), saved |-> FALSE]

\* Variant: the expired row of the key deleted by the read that finds it
get_deleting_expired(committed, pending, ticks, key, default, save_default_if_not_set) ==
    LET now_seconds == NowSeconds(ticks)
        found == SelectValue(View(committed, pending), key, now_seconds)
        result == IF found # {} THEN (CHOOSE r \in found : TRUE).value ELSE <<>>
        swept == {r \in View(committed, pending) :
                     ~(r.key = key /\ ~Unexpired(r, now_seconds))}
    IN  IF result = <<>>
        THEN IF save_default_if_not_set
             THEN LET p == put(committed, pending, ticks, key, default, None) IN
                  [raised |-> p.raised, table |-> p.table, uncommitted |-> p.uncommitted,
                   result |-> default, saved |-> p.raised = ""]
             ELSE [raised |-> "", table |-> swept, uncommitted |-> <<>>,
                   result |-> default, saved |-> FALSE]
        ELSE [raised |-> "", table |-> committed, uncommitted |-> pending,
              result |-> _decode_value(result), saved |-> FALSE]

\* KV.get
get(committed, pending, ticks, key, default, save_default_if_not_set) ==
    LET now_seconds == NowSeconds(ticks)
        found == SelectValue(View(committed, pending), key, now_seconds)
        \* fetchone(): the first row, or None
        result == IF found # {} THEN (CHOOSE r \in found : TRUE).value ELSE <<>>
    IN  \* `if not result:` holds for None and for the empty string
        IF result = <<>>
        THEN IF save_default_if_not_set
             THEN LET p == put(committed, pending, ticks, key, default, None) IN
                  [raised |-> p.raised, table |-> p.table, uncommitted |-> p.uncommitted,
                   result |-> default, saved |-> p.raised = ""]
             ELSE [raised |-> "", table |-> committed, uncommitted |-> pending,
                   result |-> default, saved |-> FALSE]
        ELSE [raised |-> "", table |-> committed, uncommitted |-> pending,
              result |-> _decode_value(result), saved |-> FALSE]

\* Variant: DELETE ... WHERE key = ? AND ttl IS NULL
delete_without_ttl_only(committed, pending, key) ==
    [raised |-> "", uncommitted |-> <<>>,
     table |-> {r \in View(committed, pending) : ~(r.key = key /\ r.ttl = None)}]

\* KV.delete
delete(committed, pending, key) ==
    [raised |-> "", uncommitted |-> <<>>,
     table |-> {r \in View(committed, pending) : r.key # key}]

\* KV.delete_partial
delete_partial(committed, pending, beginning) ==
    [raised |-> "", uncommitted |-> <<>>,
     table |-> {r \in View(committed, pending) : ~KeyLikePrefix(r.key, beginning)}]

\* KV.close: commit, then close the connection
close(committed, pending) ==
    [raised |-> "", uncommitted |-> <<>>, table |-> View(committed, pending)]

\* Variant: the row counted before its value is serialized, so a value that
\* cannot be serialized is counted without being appended
put_cached_counting_first(values, row_count, ticks, key, value, ttl_seconds) ==
    LET ttl == TtlColumn(ticks, ttl_seconds) IN
    IF ~Serializable(value)
    THEN [raised |-> "TypeError", cache_values |-> values, cache_row_count |-> row_count + 1]
    ELSE [raised |-> "",
          cache_values |-> values \o <<key, _encode_value(value), ttl>>,
          cache_row_count |-> row_count + 1]

\* KV.put_cached
put_cached(values, row_count, ticks, key, value, ttl_seconds) ==
    LET ttl == TtlColumn(ticks, ttl_seconds) IN
    IF ~Serializable(value)
    THEN [raised |-> "TypeError", cache_values |-> values, cache_row_count |-> row_count]
    ELSE [raised |-> "",
          cache_values |-> values \o <<key, _encode_value(value), ttl>>,
          cache_row_count |-> row_count + 1]

\* Variant: the buffer cleared in a finally clause, also when execute raises
commit_cached_always_clears(committed, pending, values, row_count) ==
    IF values = <<>>
    THEN [raised |-> "", table |-> committed, uncommitted |-> pending,
          cache_values |-> values, cache_row_count |-> row_count]
    ELSE LET ex == ExecuteInsert(pending, values, row_count) IN
         IF ex.raised # ""
         THEN [raised |-> ex.raised, table |-> committed, uncommitted |-> ex.uncommitted,
               cache_values |-> <<>>, cache_row_count |-> 0]
         ELSE [raised |-> "", table |-> View(committed, ex.uncommitted),
               uncommitted |-> <<>>, cache_values |-> <<>>, cache_row_count |-> 0]

\* Variant: the buffer not cleared after a successful commit
commit_cached_keeps_buffer(committed, pending, values, row_count) ==
    IF values = <<>>
    THEN [raised |-> "", table |-> committed, uncommitted |-> pending,
          cache_values |-> values, cache_row_count |-> row_count]
    ELSE LET ex == ExecuteInsert(pending, values, row_count) IN
         IF ex.raised # ""
         THEN [raised |-> ex.raised, table |-> committed, uncommitted |-> ex.uncommitted,
               cache_values |-> values, cache_row_count |-> row_count]
         ELSE [raised |-> "", table |-> View(committed, ex.uncommitted),
               uncommitted |-> <<>>, cache_values |-> values,
               cache_row_count |-> row_count]

\* Variant: the rows flushed without their expiry
commit_cached_without_expiry(committed, pending, values, row_count) ==
    IF values = <<>>
    THEN [raised |-> "", table |-> committed, uncommitted |-> pending,
          cache_values |-> values, cache_row_count |-> row_count]
    ELSE LET without_ttl == [i \in 1..Len(values) |->
                                IF i % 3 = 0 THEN None ELSE values[i]]
             ex == ExecuteInsert(pending, without_ttl, row_count) IN
         IF ex.raised # ""
         THEN [raised |-> ex.raised, table |-> committed, uncommitted |-> ex.uncommitted,
               cache_values |-> values, cache_row_count |-> row_count]
         ELSE [raised |-> "", table |-> View(committed, ex.uncommitted),
               uncommitted |-> <<>>, cache_values |-> <<>>, cache_row_count |-> 0]

\* Variant: INSERT OR IGNORE at the flush, a buffered row does not replace the
\* row stored under its key
commit_cached_keeping_stored(committed, pending, values, row_count) ==
    IF values = <<>>
    THEN [raised |-> "", table |-> committed, uncommitted |-> pending,
          cache_values |-> values, cache_row_count |-> row_count]
    ELSE LET ex == ExecuteInsert(pending, values, row_count) IN
         IF ex.raised # ""
         THEN [raised |-> ex.raised, table |-> committed, uncommitted |-> ex.uncommitted,
               cache_values |-> values, cache_row_count |-> row_count]
         ELSE [raised |-> "",
               table |-> committed \cup
                           {r \in View({}, ex.uncommitted) :
                               \A old \in committed : old.key # r.key},
               uncommitted |-> <<>>, cache_values |-> <<>>, cache_row_count |-> 0]

\* KV.commit_cached
commit_cached(committed, pending, values, row_count) ==
    IF values = <<>>
    THEN [raised |-> "", table |-> committed, uncommitted |-> pending,
          cache_values |-> values, cache_row_count |-> row_count]
    ELSE LET ex == ExecuteInsert(pending, values, row_count) IN
         IF ex.raised # ""
         THEN [raised |-> ex.raised, table |-> committed, uncommitted |-> ex.uncommitted,
               cache_values |-> values, cache_row_count |-> row_count]
         ELSE [raised |-> "", table |-> View(committed, ex.uncommitted),
               uncommitted |-> <<>>, cache_values |-> <<>>, cache_row_count |-> 0]


(***************************************************************************)
(* ORDER BY value: the column has the BINARY collation, so the serialized  *)
(* values are compared byte by byte.                                       *)
(***************************************************************************)
\* The characters of the model in ASCII order.
Ascii == <<" ", "\"", "%", "0", ":", "A", "B", "[", "]", "_", "a", "b", "d",
           "e", "f", "l", "n", "s", "u", "v", "x", "{", "}">>

Code(c) == CHOOSE i \in 1..Len(Ascii) : Ascii[i] = c

\* memcmp order of two strings
RECURSIVE BytesLeq(_, _)
BytesLeq(a, b) ==
    IF a = <<>> THEN TRUE
    ELSE IF b = <<>> THEN FALSE
    ELSE IF Head(a) = Head(b) THEN BytesLeq(Tail(a), Tail(b))
    ELSE Code(Head(a)) < Code(Head(b))

\* Variant: ORDER BY key
OrderByKey(rows) ==
    {f \in [1..Cardinality(rows) -> rows] :
        /\ \A i, j \in 1..Cardinality(rows) : i # j => f[i] # f[j]
        /\ \A i, j \in 1..Cardinality(rows) : i < j => BytesLeq(f[i].key, f[j].key)}

\* The orders in which ORDER BY value may return the rows: every order that
\* is non-decreasing in value (rows of equal value come in scan order, which
\* the statement does not fix).
OrderByValue(rows) ==
    {f \in [1..Cardinality(rows) -> rows] :
        /\ \A i, j \in 1..Cardinality(rows) : i # j => f[i] # f[j]
        /\ \A i, j \in 1..Cardinality(rows) : i < j => BytesLeq(f[i].value, f[j].value)}

\* Variant: the rows whose payload is null left out of the result
get_partial_dropping_null(committed, pending, ticks, beginning) ==
    LET now_seconds == NowSeconds(ticks)
        found == {r \in View(committed, pending) :
                     /\ KeyLikePrefix(r.key, beginning) /\ Unexpired(r, now_seconds)
                     /\ _decode_value(r.value) # "None"}
    IN  {[i \in 1..Len(result) |-> <<result[i].key, _decode_value(result[i].value)>>] :
            result \in OrderByValue(found)}

\* Variant: the ttl condition left out of the prefix query
get_partial_without_ttl(committed, pending, ticks, beginning) ==
    LET found == {r \in View(committed, pending) : KeyLikePrefix(r.key, beginning)}
    IN  {[i \in 1..Len(result) |-> <<result[i].key, _decode_value(result[i].value)>>] :
            result \in OrderByValue(found)}

\* KV.get_partial: the lists it may return
get_partial(committed, pending, ticks, beginning) ==
    LET now_seconds == NowSeconds(ticks)
        found == {r \in View(committed, pending) :
                     KeyLikePrefix(r.key, beginning) /\ Unexpired(r, now_seconds)}
    IN  {[i \in 1..Len(result) |-> <<result[i].key, _decode_value(result[i].value)>>] :
            result \in OrderByValue(found)}

(***************************************************************************)
(* ut_components/memoize.py: the memoize decorator and delete_memoized.    *)
(***************************************************************************)
\* The decorated functions, both of module "m"; func.__module__ and
\* func.__name__ of each.
Functions == {"f", "g"}
\* Another function of module "m", named by its __qualname__: the function f
\* defined in the body of a class C, whose __name__ is "f" as well.
Namesake == "C.f"
Callables == Functions \cup {Namesake}
Module(func) == <<"m">>
Name(func) == IF func = Namesake THEN <<"f">> ELSE <<func>>

\* The ttl_seconds each function is decorated with.
memoize_ttl_seconds(func) == 1

\* Argument lists of the calls: positional arguments, and keyword arguments
\* as (name, value) pairs in the order they are passed.
NoKwargs == <<>>
KwargsAB == << <<"a", "0">>, <<"b", "'x'">> >>
KwargsBA == << <<"b", "'x'">>, <<"a", "0">> >>
Calls ==
    { [args |-> <<"0">>, kwargs |-> NoKwargs],
      [args |-> <<"'x'">>, kwargs |-> NoKwargs],
      [args |-> <<>>, kwargs |-> KwargsAB],
      [args |-> <<>>, kwargs |-> KwargsBA],
      [args |-> <<UnserializableValue>>, kwargs |-> NoKwargs] }

\* func(*args, **kwargs): what each function returns or raises.  f returns
\* None, a string and 0; g returns a set for 0 and raises otherwise; C.f
\* returns another string.
Func(func, args, kwargs) ==
    CASE func = "f" /\ args = <<"0">>   -> [raised |-> "", result |-> "None"]
      [] func = "f" /\ args = <<"'x'">> -> [raised |-> "", result |-> "'x'"]
      [] func = "f" /\ args = <<>>      -> [raised |-> "", result |-> "0"]
      [] func = "g" /\ args = <<"0">>   -> [raised |-> "", result |-> UnserializableValue]
      [] func = "g"                     -> [raised |-> "ValueError", result |-> ""]
      [] func = Namesake                -> [raised |-> "", result |-> "'d'"]

\* hashlib.sha1(text.encode()): the digests of the texts of the model, in
\* hexadecimal
sha1(text) ==
    CASE text = <<"m", ".", "f">> ->
            <<"e", "7", "0", "2", "a", "4", "b", "2", "4", "3", "c", "c", "e",
            "4", "e", "6", "e", "3", "a", "5", "e", "9", "2", "8", "b", "d",
            "d", "5", "d", "2", "e", "0", "4", "1", "4", "8", "3", "3", "f",
            "2">>
      [] text = <<"m", ".", "g">> ->
            <<"1", "7", "8", "1", "2", "0", "e", "b", "7", "7", "6", "a", "3",
            "3", "2", "7", "f", "b", "3", "3", "0", "8", "5", "2", "e", "2",
            "4", "8", "c", "8", "b", "c", "0", "9", "6", "0", "1", "e", "1",
            "7">>
      [] text = <<"[", "0", "]", "-", "{", "}">> ->
            <<"2", "b", "3", "3", "7", "7", "1", "3", "8", "0", "b", "3", "0",
            "e", "5", "a", "7", "b", "e", "e", "4", "2", "3", "a", "2", "9",
            "c", "8", "5", "7", "0", "3", "d", "9", "9", "a", "7", "f", "c",
            "8">>
      [] text = <<"[", "\"", "x", "\"", "]", "-", "{", "}">> ->
            <<"f", "7", "4", "3", "5", "4", "2", "8", "8", "3", "b", "7", "3",
            "0", "e", "9", "5", "6", "d", "a", "b", "d", "4", "0", "8", "6",
            "a", "5", "b", "3", "f", "c", "b", "1", "c", "4", "7", "1", "f",
            "0">>
      [] text = <<"[", "]", "-", "{", "\"", "a", "\"", ":", " ", "0", ",", " ", "\"", "b", "\"", ":", " ", "\"", "x", "\"", "}">> ->
            <<"4", "2", "3", "8", "f", "1", "9", "5", "b", "5", "e", "3", "e",
            "e", "2", "4", "e", "a", "d", "9", "5", "6", "6", "2", "d", "9",
            "c", "7", "0", "e", "d", "4", "1", "a", "0", "6", "1", "a", "a",
            "b">>
      [] text = <<"[", "]", "-", "{", "\"", "b", "\"", ":", " ", "\"", "x", "\"", ",", " ", "\"", "a", "\"", ":", " ", "0", "}">> ->
            <<"b", "6", "4", "3", "f", "a", "2", "d", "c", "4", "3", "4", "1",
            "6", "4", "3", "c", "3", "9", "6", "f", "8", "e", "d", "b", "2",
            "2", "5", "f", "0", "9", "7", "1", "1", "6", "e", "a", "c", "f",
            "3">>

\* The code compares digests for equality, and as parts of keys and of key
\* prefixes; the model keeps the leading HexDigits digits of each digest.
HexDigits == 8

\* .hexdigest()
hexdigest(text) == SubSeq(sha1(text), 1, HexDigits)

\* ", ".join(items)
RECURSIVE JoinComma(_)
JoinComma(items) ==
    IF items = <<>> THEN <<>>
    ELSE IF Len(items) = 1 THEN items[1]
    ELSE items[1] \o <<",", " ">> \o JoinComma(Tail(items))

\* json.dumps of a tuple of values
json_dumps_list(args) ==
    <<"[">> \o JoinComma([i \in 1..Len(args) |-> json_dumps(args[i])]) \o <<"]">>

\* sorted(kwargs.items()): the pairs with their names in ascending order
RECURSIVE SortedItems(_)
SortedItems(kwargs) ==
    IF kwargs = <<>> THEN <<>>
    ELSE LET i == CHOOSE i \in 1..Len(kwargs) :
                     \A j \in 1..Len(kwargs) : BytesLeq(<<kwargs[i][1]>>, <<kwargs[j][1]>>)
         IN  <<kwargs[i]>> \o SortedItems(SubSeq(kwargs, 1, i - 1)
                                          \o SubSeq(kwargs, i + 1, Len(kwargs)))

\* json.dumps of a dict with names for keys; a dict keeps insertion order,
\* which sort_keys replaces by the order of the names
json_dumps_dict(kwargs, sort_keys) ==
    LET items == IF sort_keys THEN SortedItems(kwargs) ELSE kwargs IN
    <<"{">>
    \o JoinComma([i \in 1..Len(items) |->
                    <<"\"", items[i][1], "\"", ":", " ">> \o json_dumps(items[i][2])])
    \o <<"}">>

\* json.dumps raises TypeError on an argument that is not JSON serializable.
ArgsSerializable(args, kwargs) ==
    /\ \A i \in 1..Len(args) : Serializable(args[i])
    /\ \A i \in 1..Len(kwargs) : Serializable(kwargs[i][2])

\* hash_function_name
hash_function_name(func) == hexdigest(Module(func) \o <<".">> \o Name(func))

\* Variant: json.dumps(kwargs) without sort_keys
hash_function_args_unsorted(args, kwargs) ==
    hexdigest(json_dumps_list(args) \o <<"-">> \o json_dumps_dict(kwargs, FALSE))

\* hash_function_args
hash_function_args(args, kwargs) ==
    hexdigest(json_dumps_list(args) \o <<"-">> \o json_dumps_dict(kwargs, TRUE))

\* The text  memoize.
MemoizeDot == <<"m", "e", "m", "o", "i", "z", "e", ".">>

\* f"memoize.{hashed_function_name}": the prefix delete_memoized deletes by
MemoPrefix(func) == MemoizeDot \o hash_function_name(func)

\* f"memoize.{hashed_function_name}.{hashed_encoded_args}"
MemoKey(func, args, kwargs) ==
    MemoPrefix(func) \o <<".">> \o hash_function_args(args, kwargs)

\* The keys of the memoized records of the model.
MemoKeys ==
    {MemoKey(func, c.args, c.kwargs) :
        func \in Functions, c \in {x \in Calls : ArgsSerializable(x.args, x.kwargs)}}

\* KV.__exit__: close, whatever the block raised; the exception of the block
\* propagates.  The outcome of a with KV() block that ended with `raised`,
\* `result`, on a connection holding `pending`.
__exit__(committed, pending, raised, result, invoked) ==
    LET c == close(committed, pending) IN
    [raised |-> raised, result |-> result, invoked |-> invoked,
     table |-> c.table, is_open |-> FALSE]

\* Variant: the handle closed by a kv.close() at the end of the block instead
\* of `with`, so that only the path reaching the end of the block closes it
wrapper_closing_at_end(committed, ticks, func, args, kwargs) ==
    IF ~ArgsSerializable(args, kwargs)
    THEN [raised |-> "TypeError", result |-> "", invoked |-> FALSE,
          table |-> committed, is_open |-> FALSE]
    ELSE
    LET key == MemoKey(func, args, kwargs)
        response == get(committed, <<>>, ticks, key, "None", FALSE)
    IN  IF response.result # "None"
        THEN [raised |-> "", result |-> response.result, invoked |-> FALSE,
              table |-> response.table, is_open |-> TRUE]
        ELSE LET result == Func(func, args, kwargs) IN
             IF result.raised # ""
             THEN [raised |-> result.raised, result |-> "", invoked |-> TRUE,
                   table |-> response.table, is_open |-> TRUE]
             ELSE LET p == put(response.table, response.uncommitted, ticks, key,
                               result.result, memoize_ttl_seconds(func)) IN
                  IF p.raised # ""
                  THEN [raised |-> p.raised, result |-> "", invoked |-> TRUE,
                        table |-> p.table, is_open |-> TRUE]
                  ELSE __exit__(p.table, p.uncommitted, "", result.result, TRUE)

\* Variant: the result stored by a put without ttl_seconds
wrapper_storing_without_ttl(committed, ticks, func, args, kwargs) ==
    IF ~ArgsSerializable(args, kwargs)
    THEN [raised |-> "TypeError", result |-> "", invoked |-> FALSE,
          table |-> committed, is_open |-> FALSE]
    ELSE
    LET key == MemoKey(func, args, kwargs)
        response == get(committed, <<>>, ticks, key, "None", FALSE)
    IN  IF response.result # "None"
        THEN __exit__(response.table, response.uncommitted, "", response.result, FALSE)
        ELSE LET result == Func(func, args, kwargs) IN
             IF result.raised # ""
             THEN __exit__(response.table, response.uncommitted, result.raised, "", TRUE)
             ELSE LET p == put(response.table, response.uncommitted, ticks, key,
                               result.result, None) IN
                  IF p.raised # ""
                  THEN __exit__(p.table, p.uncommitted, p.raised, "", TRUE)
                  ELSE __exit__(p.table, p.uncommitted, "", result.result, TRUE)

\* Variant: the hashes computed after the call of func, so that the function
\* has been invoked when an argument that cannot be serialized raises
wrapper_hashing_after_call(committed, ticks, func, args, kwargs) ==
    IF ~ArgsSerializable(args, kwargs)
    THEN [raised |-> "TypeError", result |-> "", invoked |-> TRUE,
          table |-> committed, is_open |-> FALSE]
    ELSE
    LET key == MemoKey(func, args, kwargs)
        response == get(committed, <<>>, ticks, key, "None", FALSE)
    IN  IF response.result # "None"
        THEN __exit__(response.table, response.uncommitted, "", response.result, FALSE)
        ELSE LET result == Func(func, args, kwargs) IN
             IF result.raised # ""
             THEN __exit__(response.table, response.uncommitted, result.raised, "", TRUE)
             ELSE LET p == put(response.table, response.uncommitted, ticks, key,
                               result.result, memoize_ttl_seconds(func)) IN
                  IF p.raised # ""
                  THEN __exit__(p.table, p.uncommitted, p.raised, "", TRUE)
                  ELSE __exit__(p.table, p.uncommitted, "", result.result, TRUE)

\* Variant: the failure of func stored as the record of the call before it is
\* raised again
wrapper_storing_failure(committed, ticks, func, args, kwargs) ==
    IF ~ArgsSerializable(args, kwargs)
    THEN [raised |-> "TypeError", result |-> "", invoked |-> FALSE,
          table |-> committed, is_open |-> FALSE]
    ELSE
    LET key == MemoKey(func, args, kwargs)
        response == get(committed, <<>>, ticks, key, "None", FALSE)
    IN  IF response.result # "None"
        THEN __exit__(response.table, response.uncommitted, "", response.result, FALSE)
        ELSE LET result == Func(func, args, kwargs) IN
             IF result.raised # ""
             THEN LET p == put(response.table, response.uncommitted, ticks, key, "'x'",
                               memoize_ttl_seconds(func)) IN
                  __exit__(p.table, p.uncommitted, result.raised, "", TRUE)
             ELSE LET p == put(response.table, response.uncommitted, ticks, key,
                               result.result, memoize_ttl_seconds(func)) IN
                  IF p.raised # ""
                  THEN __exit__(p.table, p.uncommitted, p.raised, "", TRUE)
                  ELSE __exit__(p.table, p.uncommitted, "", result.result, TRUE)

\* memoize: the wrapper of func called with args and kwargs.  The hashes are
\* computed before KV() is opened, so an argument that cannot be serialized
\* raises with no handle opened.
wrapper(committed, ticks, func, args, kwargs) ==
    IF ~ArgsSerializable(args, kwargs)
    THEN [raised |-> "TypeError", result |-> "", invoked |-> FALSE,
          table |-> committed, is_open |-> FALSE]
    ELSE
    LET key == MemoKey(func, args, kwargs)
        response == get(committed, <<>>, ticks, key, "None", FALSE)
    IN  \* `if response is not None: return response`
        IF response.result # "None"
        THEN __exit__(response.table, response.uncommitted, "", response.result, FALSE)
        ELSE LET result == Func(func, args, kwargs) IN
             IF result.raised # ""
             THEN __exit__(response.table, response.uncommitted, result.raised, "", TRUE)
             ELSE LET p == put(response.table, response.uncommitted, ticks, key,
                               result.result, memoize_ttl_seconds(func)) IN
                  IF p.raised # ""
                  THEN __exit__(p.table, p.uncommitted, p.raised, "", TRUE)
                  ELSE __exit__(p.table, p.uncommitted, "", result.result, TRUE)

\* Variant: the record deleted by its exact key, the prefix taken as a key
delete_memoized_by_key(committed, function) ==
    LET d == delete(committed, <<>>, MemoPrefix(function)) IN
    __exit__(d.table, d.uncommitted, d.raised, "", FALSE)

\* delete_memoized
delete_memoized(committed, function) ==
    LET d == delete_partial(committed, <<>>, MemoPrefix(function)) IN
    __exit__(d.table, d.uncommitted, d.raised, "", FALSE)

\* with KV() as kv: kv.put(key, value)
with_put(committed, ticks, key, value) ==
    LET p == put(committed, <<>>, ticks, key, value, None) IN
    __exit__(p.table, p.uncommitted, p.raised, "", FALSE)

(***************************************************************************)
(* http.py: request and post.  A URL is a host and a path; an attempt is   *)
(* one call of urllib.request.urlopen, and the server decides, host by     *)
(* host, how a request is answered.                                        *)
(***************************************************************************)
Hosts == {"a", "b"}

\* No URL (None); also the Location of an answer that carries none.
NoUrl == [host |-> "", path |-> ""]

Url == [host |-> "a", path |-> ""]

RedirectCodes == {301, 302, 303, 307, 308}

\* The Location headers: none, the absolute URL of a host, a relative path.
Locations == {NoUrl, [host |-> "", path |-> "/c"]} \cup {[host |-> h, path |-> ""] : h \in Hosts}

\* What a host does with a request: it answers with a response, with an error
\* status (for a redirect, with or without a Location), it cannot be reached
\* (URLError), the exchange fails otherwise, or it stays silent.
Answers ==
    {[kind |-> "response", code |-> 200, location |-> NoUrl],
     [kind |-> "HTTPError", code |-> 404, location |-> NoUrl]}
    \cup {[kind |-> "HTTPError", code |-> c, location |-> l] : c \in RedirectCodes, l \in Locations}
    \cup {[kind |-> k, code |-> 0, location |-> NoUrl] : k \in {"URLError", "Exception", "silent"}}

\* No answer: the server was not asked.
NoAnswer == [kind |-> "", code |-> 0, location |-> NoUrl]

\* urljoin(current_url, location) for a relative Location
urljoin(current_url, location) == [host |-> current_url.host, path |-> location.path]

\* The limits of urllib's HTTPRedirectHandler, which the default opener of
\* urlopen uses: the redirections of one call, the visits of one URL.
max_redirections == 10

max_repeats == 4

\* The number of times `url` is in the sequence `visited`.
Visits(visited, url) == Cardinality({i \in 1..Len(visited) : visited[i] = url})

\* urllib's opener.open with its HTTPRedirectHandler: the request is sent; a
\* redirect with a Location is followed with a GET when the method is GET or
\* HEAD, or is POST and the status 301, 302 or 303, until a URL has been
\* visited max_repeats times or max_redirections URLs have been visited; then,
\* and for every other error status, HTTPError is raised with the status and
\* headers of the last answer.  `sent` counts the HTTP requests sent.
RECURSIVE open(_, _, _, _, _)
open(server, url, method, visited, sent) ==
    LET e == server[url.host]
        outcome == [kind |-> e.kind, code |-> e.code, location |-> e.location,
                    sent |-> sent + 1]
    IN  IF ~(e.kind = "HTTPError" /\ e.code \in RedirectCodes /\ e.location # NoUrl)
        THEN outcome
        ELSE LET newurl == IF e.location.host = "" THEN urljoin(url, e.location)
                           ELSE e.location
             IN  IF ~(\/ method \in {"GET", "HEAD"}
                      \/ e.code \in {301, 302, 303} /\ method = "POST")
                 THEN outcome
                 ELSE IF \/ Visits(visited, newurl) >= max_repeats
                         \/ Cardinality({visited[i] : i \in 1..Len(visited)}) >= max_redirections
                      THEN outcome
                      ELSE open(server, newurl, "GET", Append(visited, newurl), sent + 1)

\* urllib.request.urlopen(Request(current_url, ..., method=current_method)),
\* called without a timeout: building a Request without a URL raises;
\* otherwise the opener sends the request and follows redirects.
urlopen(server, current_url, current_method) ==
    IF current_url = NoUrl
    THEN [kind |-> "Exception", code |-> 0, location |-> NoUrl, sent |-> 0]
    ELSE open(server, current_url, current_method, <<>>, 0)

\* Response.__init__
Response(url, success, status_code, data) ==
    [url |-> url, success |-> success, status_code |-> status_code, data |-> data]

NoResponse == Response(NoUrl, FALSE, 0, "")

\* The outcome of request: whether it returned, what its calls of urlopen
\* gave in order, the HTTP requests sent in all, the method of its last call
\* of urlopen, and its Response.
Returned(answered, sent, method, response) ==
    [returned |-> TRUE, answered |-> answered, sent |-> sent, method |-> method,
     response |-> response]

\* request: the loop `while redirect_count < max_redirects` and the return
\* after it
RECURSIVE request_loop(_, _, _, _, _, _, _, _, _)
request_loop(redirect_count, current_url, current_method, current_data, follow_redirects, max_redirects, server, answered, sent) ==
    IF ~(redirect_count < max_redirects)
    THEN Returned(answered, sent, current_method,
                  Response(current_url, FALSE, 0, "Maximum redirects exceeded"))
    ELSE LET e == urlopen(server, current_url, current_method)
             seen == Append(answered, e)
             n == sent + e.sent
         IN  CASE e.kind = "silent" ->
                    \* urlopen waits: no timeout is given
                    [returned |-> FALSE, answered |-> seen, sent |-> n,
                     method |-> current_method, response |-> NoResponse]
               [] e.kind = "response" ->
                    Returned(seen, n, current_method,
                             Response(current_url, TRUE, e.code, "body"))
               [] e.kind = "HTTPError" ->
                    IF follow_redirects /\ e.code \in RedirectCodes
                    THEN IF e.location = NoUrl
                         THEN Returned(seen, n, current_method,
                                       Response(current_url, FALSE, e.code, "body"))
                         ELSE LET location == IF e.location.host = ""
                                              THEN urljoin(current_url, e.location)
                                              ELSE e.location
                                  to_get == \/ e.code = 303
                                            \/ /\ e.code \in {301, 302}
                                               /\ current_method \in {"POST", "PUT", "DELETE"}
                              IN  request_loop(redirect_count + 1, location,
                                      IF to_get THEN "GET" ELSE current_method,
                                      IF to_get THEN "None" ELSE current_data,
                                      follow_redirects, max_redirects, server, seen, n)
                    ELSE Returned(seen, n, current_method,
                                  Response(current_url, FALSE, e.code, "body"))
               [] e.kind = "URLError" ->
                    Returned(seen, n, current_method,
                             Response(current_url, FALSE, 0, "reason"))
               [] e.kind = "Exception" ->
                    Returned(seen, n, current_method,
                             Response(current_url, FALSE, 0, "message"))

\* http.request
request(url, method, data, follow_redirects, max_redirects, server) ==
    request_loop(0, url, method, data, follow_redirects, max_redirects, server, <<>>, 0)

\* The default of max_redirects.
DefaultMaxRedirects == 10

\* http.post: request(url, method="POST", data=..., headers=...)
post(url, json, server) ==
    request(url, "POST", json, TRUE, DefaultMaxRedirects, server)

(***************************************************************************)
(* crash.py: the preference "crash.enabled" and the decorator.             *)
(***************************************************************************)
CrashEnabledKey == <<"c", "r", "a", "s", "h", ".", "e", "n", "a", "b", "l", "e", "d">>

\* The truth value of a stored value: None, False, 0, '' and [] are false.
Truthy(v) == v \notin FalsyValues \cup {"None"}

\* set_crash_report: with KV() as kv: kv.put("crash.enabled", enabled)
set_crash_report(committed, ticks, enabled) ==
    LET p == put(committed, <<>>, ticks, CrashEnabledKey, enabled, None) IN
    __exit__(p.table, p.uncommitted, p.raised, "", FALSE)

\* get_crash_report: with KV() as kv:
\*     return kv.get("crash.enabled", False, True) or False
\* `connect` is what opening the store raises ("" when it opens).
get_crash_report(committed, ticks, connect) ==
    IF connect # ""
    THEN [raised |-> connect, result |-> "", invoked |-> FALSE, table |-> committed,
          is_open |-> FALSE]
    ELSE LET g == get(committed, <<>>, ticks, CrashEnabledKey, "False", TRUE) IN
         __exit__(g.table, g.uncommitted, g.raised,
                  IF Truthy(g.result) THEN g.result ELSE "False", FALSE)

\* The outcome of a decorated call: whether it returned or raised at all, what
\* it raised, what it returned, the table, and whether a report was posted.
CrashOutcome(returned, raised, result, committed, posted) ==
    [returned |-> returned, raised |-> raised, result |-> result, table |-> committed,
     is_open |-> FALSE, posted |-> posted]

\* crash_reporter.wrapper.  func_raises is the exception the wrapped function
\* raises ("" when it returns); crash_report_url is the value the name
\* CRASH_REPORT_URL_ has in crash.py; asserts tells whether the interpreter
\* executes assert statements (it does not under -O).
crash_wrapper(committed, ticks, func_raises, crash_report_url, asserts, connect, server) ==
    IF func_raises = ""
    THEN CrashOutcome(TRUE, "", "'x'", committed, FALSE)
    ELSE \* except Exception:
         LET enabled == get_crash_report(committed, ticks, connect) IN
         IF enabled.raised # ""
         THEN CrashOutcome(TRUE, enabled.raised, "", enabled.table, FALSE)
         ELSE IF Truthy(enabled.result)
              THEN IF asserts /\ crash_report_url = NoUrl
                   THEN \* assert CRASH_REPORT_URL_
                        CrashOutcome(TRUE, "AssertionError", "", enabled.table, FALSE)
                   ELSE LET r == post(crash_report_url, "report", server) IN
                        \* raise
                        CrashOutcome(r.returned, IF r.returned THEN func_raises ELSE "",
                                     "", enabled.table, TRUE)
              ELSE CrashOutcome(TRUE, func_raises, "", enabled.table, FALSE)

(***************************************************************************)
(* main.py: the handlers of the application that keep their state in the   *)
(* store.  What the bw command line answers is an input of each handler:   *)
(* a BitwardenClientResponse is a record [success, data].                  *)
(***************************************************************************)
SetupDoneKey == <<"s", "e", "a", "l", "e", "d", ".", "s", "e", "t", "u", "p", "_", "d", "o", "n", "e">>
SyncedKey == <<"s", "e", "a", "l", "e", "d", ".", "s", "y", "n", "c", "e", "d">>
SessionCodeKey == <<"b", "w", ".", "s", "e", "s", "s", "i", "o", "n", "_", "c", "o", "d", "e">>
ServerUrlKey == <<"c", "o", "n", "f", "i", "g", ".", "s", "e", "r", "v", "e", "r", "_", "u", "r", "l">>

\* The namespaces logout and cleanup delete.
SealedPrefix == <<"s", "e", "a", "l", "e", "d">>
BwPrefix == <<"b", "w">>

\* kv.put("sealed.synced", True, ttl_seconds=86400)
SyncTtlSeconds == 86400

\* The default of get_configuration.
DefaultServerUrl == "'bitwarden.com'"

\* The value of CRASH_REPORT_URL_ in crash.py (setup runs before crash.py is
\* imported) and a server that accepts the report.
ReportAccepted == [h \in Hosts |-> [kind |-> "response", code |-> 200, location |-> NoUrl]]

\* crash_reporter on a handler whose body ended with `outcome`: a body that
\* returned is left alone, a body that raised goes through the except block.
crash_reporter(outcome, ticks) ==
    IF outcome.raised = ""
    THEN outcome
    ELSE LET r == crash_wrapper(outcome.table, ticks, outcome.raised, Url, TRUE, "",
                                ReportAccepted) IN
         [outcome EXCEPT !.raised = r.raised, !.table = r.table]

\* Variant: the flag read with kv.get, and the setup skipped when it is set
setup_bw_reading_flag(committed, ticks, setup) ==
    LET read == get(committed, <<>>, ticks, SetupDoneKey, "False", FALSE)
        setup_done == Truthy(read.result)
    IN  IF ~setup_done
        THEN IF ~setup.success
             THEN __exit__(read.table, read.uncommitted, "Exception", "", {"bitwarden_setup"})
             ELSE LET done == put(read.table, read.uncommitted, ticks, SetupDoneKey,
                                  "True", None) IN
                  __exit__(done.table, done.uncommitted, done.raised, "",
                           {"bitwarden_setup"})
        ELSE __exit__(read.table, read.uncommitted, read.raised, "", {})

\* setup_bw.  The field `invoked` of the outcome of a handler is the set of
\* the bitwarden_* functions the handler called.
setup_bw(committed, ticks, setup) ==
    LET reset == put(committed, <<>>, ticks, SetupDoneKey, "False", None)
        \* KV.put has no return statement: setup_done = None or False
        setup_done == Truthy("None")
    IN  IF reset.raised # ""
        THEN __exit__(reset.table, reset.uncommitted, reset.raised, "", {})
        ELSE IF ~setup_done
        THEN IF ~setup.success
             THEN \* raise Exception(...)
                  __exit__(reset.table, reset.uncommitted, "Exception", "",
                           {"bitwarden_setup"})
             ELSE LET done == put(reset.table, reset.uncommitted, ticks, SetupDoneKey,
                                  "True", None) IN
                  __exit__(done.table, done.uncommitted, done.raised, "",
                           {"bitwarden_setup"})
        ELSE __exit__(reset.table, reset.uncommitted, "", "", {})

\* Variant: the session code stored before the response is examined
login_storing_first(committed, ticks, email, login_response, unlock_response) ==
    LET session_code == IF email # "" THEN login_response ELSE unlock_response
        called == IF email # "" THEN {"bitwarden_login"} ELSE {"bitwarden_unlock"}
        stored == put(committed, <<>>, ticks, SessionCodeKey, session_code.data, None)
    IN  __exit__(stored.table, stored.uncommitted, stored.raised,
                 IF session_code.success THEN "True" ELSE "False", called)

\* login: the result is the field success of the StandardBitwardenResponse.
login(committed, ticks, email, login_response, unlock_response) ==
    LET session_code == IF email # "" THEN login_response ELSE unlock_response
        called == IF email # "" THEN {"bitwarden_login"} ELSE {"bitwarden_unlock"}
        body ==
            IF ~session_code.success
            THEN \* returned before the store is opened
                 [raised |-> "", result |-> "False", invoked |-> called,
                  table |-> committed, is_open |-> FALSE]
            ELSE LET stored == put(committed, <<>>, ticks, SessionCodeKey,
                                   session_code.data, None) IN
                 __exit__(stored.table, stored.uncommitted, stored.raised, "True", called)
    IN  crash_reporter(body, ticks)

\* list_items and list_trash from `items = bitwarden_list_items(...)` on,
\* in a block that has called `called` and holds the store as x left it.
\* list_raises is what bitwarden_list_items raises ("" when it returns the
\* items); the result is the field success of the ListItemsResult.
with_items(x, called, list_raises) ==
    IF x.raised # ""
    THEN __exit__(x.table, x.uncommitted, x.raised, "", called)
    ELSE __exit__(x.table, x.uncommitted, list_raises,
                  IF list_raises # "" THEN "" ELSE "True",
                  called \cup {"bitwarden_list_items"})

\* Variant: the flag written before bitwarden_sync is called
with_synced_marking_first(flag, ticks, sync_result, list_raises) ==
    IF ~Truthy(IF Truthy(flag.result) THEN flag.result ELSE "False")
    THEN IF ~sync_result.success
         THEN LET marked == put(flag.table, flag.uncommitted, ticks, SyncedKey, "True",
                                SyncTtlSeconds) IN
              __exit__(marked.table, marked.uncommitted, "", "False", {"bitwarden_sync"})
         ELSE with_items(put(flag.table, flag.uncommitted, ticks, SyncedKey, "True",
                             SyncTtlSeconds), {"bitwarden_sync"}, list_raises)
    ELSE with_items(flag, {}, list_raises)

\* list_items and list_trash from `synced = kv.get("sealed.synced") or False`
\* on; flag is the outcome of that kv.get.
with_synced(flag, ticks, sync_result, list_raises) ==
    IF ~Truthy(IF Truthy(flag.result) THEN flag.result ELSE "False")
    THEN IF ~sync_result.success
         THEN __exit__(flag.table, flag.uncommitted, "", "False", {"bitwarden_sync"})
         ELSE with_items(put(flag.table, flag.uncommitted, ticks, SyncedKey, "True",
                             SyncTtlSeconds), {"bitwarden_sync"}, list_raises)
    ELSE with_items(flag, {}, list_raises)

\* list_items and list_trash from `session_code = kv.get("bw.session_code")`
\* on; session is the outcome of that kv.get.
with_session_code(session, ticks, sync_result, list_raises) ==
    IF ~Truthy(session.result)
    THEN __exit__(session.table, session.uncommitted, session.raised, "False", {})
    ELSE with_synced(get(session.table, session.uncommitted, ticks, SyncedKey, "None",
                         FALSE), ticks, sync_result, list_raises)

\* list_items
list_items(committed, ticks, sync_result, list_raises) ==
    crash_reporter(with_session_code(get(committed, <<>>, ticks, SessionCodeKey, "None",
                                         FALSE), ticks, sync_result, list_raises), ticks)

\* list_trash: the statements of list_items, with
\* bitwarden_list_items(session_code, trash=True)
list_trash(committed, ticks, sync_result, list_raises) ==
    crash_reporter(with_session_code(get(committed, <<>>, ticks, SessionCodeKey, "None",
                                         FALSE), ticks, sync_result, list_raises), ticks)

\* refresh
refresh(committed, ticks, sync_result) ==
    LET session == get(committed, <<>>, ticks, SessionCodeKey, "None", FALSE)
        session_code == session.result
        body ==
            IF ~Truthy(session_code)
            THEN __exit__(session.table, session.uncommitted, session.raised, "False", {})
            ELSE IF ~sync_result.success
            THEN __exit__(session.table, session.uncommitted, "", "False",
                          {"bitwarden_sync"})
            ELSE LET marked == put(session.table, session.uncommitted, ticks, SyncedKey,
                                   "True", SyncTtlSeconds) IN
                 __exit__(marked.table, marked.uncommitted, marked.raised, "True",
                          {"bitwarden_sync"})
    IN  crash_reporter(body, ticks)

\* "not logged in" in response.data.lower()
NotLoggedIn(data) == data = "'You are not logged in.'"

\* Variant: the namespaces deleted only once bitwarden_logout has succeeded
logout_deleting_on_success(committed, ticks, response) ==
    IF ~response.success
    THEN __exit__(committed, <<>>, "",
                  IF NotLoggedIn(response.data) THEN "True" ELSE "False",
                  {"bitwarden_logout"})
    ELSE LET sealed == delete_partial(committed, <<>>, SealedPrefix)
             bw == delete_partial(sealed.table, sealed.uncommitted, BwPrefix)
         IN  __exit__(bw.table, bw.uncommitted, "", "True", {"bitwarden_logout"})

\* logout
logout(committed, ticks, response) ==
    LET sealed == delete_partial(committed, <<>>, SealedPrefix)
        bw == delete_partial(sealed.table, sealed.uncommitted, BwPrefix)
        body ==
            __exit__(bw.table, bw.uncommitted, "",
                     IF ~response.success /\ ~NotLoggedIn(response.data) THEN "False"
                     ELSE "True",
                     {"bitwarden_logout"})
    IN  crash_reporter(body, ticks)

\* get_configuration: the server URL, saved as "bitwarden.com" when it is
\* not stored, and the crash preference, in a store of its own.
get_configuration(committed, ticks) ==
    LET server_url == get(committed, <<>>, ticks, ServerUrlKey, DefaultServerUrl, TRUE)
        crash_logs == get_crash_report(View(server_url.table, server_url.uncommitted),
                                       ticks, "")
        body ==
            __exit__(crash_logs.table, <<>>,
                     IF server_url.raised # "" THEN server_url.raised ELSE crash_logs.raised,
                     IF Truthy(server_url.result) THEN server_url.result
                     ELSE DefaultServerUrl, {})
    IN  crash_reporter(body, ticks)

(***************************************************************************)
(* The state machine.                                                      *)
(***************************************************************************)
\* The time of a put is recorded when the put gave a ttl, to tell when that
\* ttl has elapsed; a put without ttl records no time.
PutTime(ticks, ttl_seconds) ==
    IF ttl_seconds # None /\ ttl_seconds > 0 THEN ticks ELSE 0

\* No response of the bw command line.
NoClientResponse == [success |-> FALSE, data |-> ""]

\* No put recorded for a key.
NoPut == [at |-> 0, ttl_seconds |-> None, value |-> "", put |-> FALSE]

\* The record of a call; each step fills the fields of its call: arguments,
\* the time of the call, what it raised and returned, the rows of the table
\* it removed or replaced (gone), the rows buffered when it was called (rows);
\* for a call of a memoized function, the function and its arguments (func,
\* args, kwargs) and whether the wrapped function was invoked.
\* For an HTTP request: the URL, method, follow_redirects, max_redirects,
\* the server, whether the call returned, what its calls of urlopen gave,
\* the HTTP requests sent in all and the Response.  For a decorated call: the exception the wrapped function raises,
\* the URL configured for reports (url), whether asserts execute, what
\* opening the store raises, and whether a report was posted.
\* For a handler of main.py: the email, the bitwarden_* functions it called,
\* and the responses of bw (of the login and of the unlock for login).
NoCall == [op |-> "", s |-> "", at |-> 0, key |-> <<>>, value |-> "", ttl_seconds |-> None,
           default |-> "", save |-> FALSE, raised |-> "", result |-> "", pairs |-> <<>>,
           gone |-> {}, rows |-> 0,
           func |-> "", args |-> <<>>, kwargs |-> <<>>, invoked |-> FALSE,
           url |-> NoUrl, method |-> "", follow_redirects |-> FALSE, max_redirects |-> 0,
           server |-> [h \in Hosts |-> NoAnswer], returned |-> TRUE, answered |-> <<>>,
           sent |-> 0, response |-> NoResponse,
           func_raises |-> "", asserts |-> TRUE, connect |-> "", posted |-> FALSE,
           email |-> "", called |-> {}, bw |-> NoClientResponse,
           login_response |-> NoClientResponse, unlock_response |-> NoClientResponse]

Init ==
    /\ clock = 0
    /\ table = {}
    /\ is_open = [s \in Sessions |-> FALSE]
    /\ uncommitted = [s \in Sessions |-> <<>>]
    /\ cache_values = [s \in Sessions |-> <<>>]
    /\ cache_row_count = [s \in Sessions |-> 0]
    /\ wrote = [k \in Keys |-> NoPut]
    /\ last = NoCall

\* Time passes, up to `limit` ticks.
Tick(limit) ==
    /\ clock < limit
    /\ clock' = clock + 1
    /\ UNCHANGED <<table, is_open, uncommitted, cache_values, cache_row_count, wrote, last>>

\* KV.__init__: a new KV object on a new connection, with an empty buffer
Open(s) ==
    /\ ~is_open[s]
    /\ is_open' = [is_open EXCEPT ![s] = TRUE]
    /\ uncommitted' = [uncommitted EXCEPT ![s] = <<>>]
    /\ cache_values' = [cache_values EXCEPT ![s] = <<>>]
    /\ cache_row_count' = [cache_row_count EXCEPT ![s] = 0]
    /\ last' = [NoCall EXCEPT !.op = "open", !.s = s, !.at = clock]
    /\ UNCHANGED <<clock, table, wrote>>

\* Variant: close flushing the buffered rows before it commits
CloseFlushing(s) ==
    /\ is_open[s]
    /\ LET f == commit_cached(table, uncommitted[s], cache_values[s], cache_row_count[s])
           r == close(f.table, f.uncommitted) IN
        /\ table' = r.table
        /\ uncommitted' = [uncommitted EXCEPT ![s] = r.uncommitted]
    /\ is_open' = [is_open EXCEPT ![s] = FALSE]
    /\ last' = [NoCall EXCEPT !.op = "close", !.s = s, !.at = clock,
                    !.rows = cache_row_count[s]]
    /\ UNCHANGED <<clock, cache_values, cache_row_count, wrote>>

\* KV.close / KV.__exit__
Close(s) ==
    /\ is_open[s]
    /\ LET r == close(table, uncommitted[s]) IN
        /\ table' = r.table
        /\ uncommitted' = [uncommitted EXCEPT ![s] = r.uncommitted]
    /\ is_open' = [is_open EXCEPT ![s] = FALSE]
    /\ last' = [NoCall EXCEPT !.op = "close", !.s = s, !.at = clock,
                    !.rows = cache_row_count[s]]
    /\ UNCHANGED <<clock, cache_values, cache_row_count, wrote>>

Put(s, key, value, ttl_seconds) ==
    /\ is_open[s]
    /\ LET r == put(table, uncommitted[s], clock, key, value, ttl_seconds) IN
        /\ table' = r.table
        /\ uncommitted' = [uncommitted EXCEPT ![s] = r.uncommitted]
        /\ wrote' = IF r.raised = ""
                    THEN [wrote EXCEPT ![key] = [at |-> PutTime(clock, ttl_seconds),
                                                 ttl_seconds |-> ttl_seconds,
                                                 value |-> value, put |-> TRUE]]
                    ELSE wrote
        /\ last' = [NoCall EXCEPT !.op = "put", !.s = s, !.at = clock, !.key = key,
                        !.value = value, !.ttl_seconds = ttl_seconds, !.raised = r.raised,
                        !.gone = table \ r.table]
    /\ UNCHANGED <<clock, is_open, cache_values, cache_row_count>>

Get(s, key, default, save_default_if_not_set) ==
    /\ is_open[s]
    /\ LET r == get(table, uncommitted[s], clock, key, default, save_default_if_not_set) IN
        /\ table' = r.table
        /\ uncommitted' = [uncommitted EXCEPT ![s] = r.uncommitted]
        /\ wrote' = IF r.saved
                    THEN [wrote EXCEPT ![key] = [at |-> PutTime(clock, None),
                                                 ttl_seconds |-> None,
                                                 value |-> default, put |-> TRUE]]
                    ELSE wrote
        /\ last' = [NoCall EXCEPT !.op = "get", !.s = s, !.at = clock, !.key = key,
                        !.default = default, !.save = save_default_if_not_set,
                        !.raised = r.raised, !.result = r.result,
                        !.gone = table \ r.table]
    /\ UNCHANGED <<clock, is_open, cache_values, cache_row_count>>

GetPartial(s, beginning) ==
    /\ is_open[s]
    /\ \E result \in get_partial(table, uncommitted[s], clock, beginning) :
        last' = [NoCall EXCEPT !.op = "get_partial", !.s = s, !.at = clock,
                     !.key = beginning, !.pairs = result]
    /\ UNCHANGED <<clock, table, is_open, uncommitted, cache_values, cache_row_count, wrote>>

Delete(s, key) ==
    /\ is_open[s]
    /\ LET r == delete(table, uncommitted[s], key) IN
        /\ table' = r.table
        /\ uncommitted' = [uncommitted EXCEPT ![s] = r.uncommitted]
        /\ last' = [NoCall EXCEPT !.op = "delete", !.s = s, !.at = clock, !.key = key,
                        !.gone = table \ r.table]
    /\ wrote' = [wrote EXCEPT ![key] = NoPut]
    /\ UNCHANGED <<clock, is_open, cache_values, cache_row_count>>

DeletePartial(s, beginning) ==
    /\ is_open[s]
    /\ LET r == delete_partial(table, uncommitted[s], beginning) IN
        /\ table' = r.table
        /\ uncommitted' = [uncommitted EXCEPT ![s] = r.uncommitted]
        /\ wrote' = [k \in Keys |->
                        IF \E row \in table : row.key = k /\ row \notin r.table
                        THEN NoPut ELSE wrote[k]]
        /\ last' = [NoCall EXCEPT !.op = "delete_partial", !.s = s, !.at = clock,
                        !.key = beginning, !.gone = table \ r.table]
    /\ UNCHANGED <<clock, is_open, cache_values, cache_row_count>>

\* Variant: put_cached also writing the row through to the table
PutCachedWritingThrough(s, key, value, ttl_seconds) ==
    /\ is_open[s]
    /\ cache_row_count[s] < MaxRows
    /\ LET r == put_cached(cache_values[s], cache_row_count[s], clock, key, value,
                           ttl_seconds)
           w == put(table, uncommitted[s], clock, key, value, ttl_seconds) IN
        /\ cache_values' = [cache_values EXCEPT ![s] = r.cache_values]
        /\ cache_row_count' = [cache_row_count EXCEPT ![s] = r.cache_row_count]
        /\ table' = w.table
        /\ last' = [NoCall EXCEPT !.op = "put_cached", !.s = s, !.at = clock, !.key = key,
                        !.value = value, !.ttl_seconds = ttl_seconds, !.raised = r.raised]
    /\ UNCHANGED <<clock, is_open, uncommitted, wrote>>

PutCached(s, key, value, ttl_seconds) ==
    /\ is_open[s]
    /\ cache_row_count[s] < MaxRows
    /\ LET r == put_cached(cache_values[s], cache_row_count[s], clock, key, value,
                           ttl_seconds) IN
        /\ cache_values' = [cache_values EXCEPT ![s] = r.cache_values]
        /\ cache_row_count' = [cache_row_count EXCEPT ![s] = r.cache_row_count]
        /\ last' = [NoCall EXCEPT !.op = "put_cached", !.s = s, !.at = clock, !.key = key,
                        !.value = value, !.ttl_seconds = ttl_seconds, !.raised = r.raised]
    /\ UNCHANGED <<clock, table, is_open, uncommitted, wrote>>

\* The keys of the rows of a flat parameter list.
CachedKeys(values) == {values[i] : i \in {j \in 1..Len(values) : j % 3 = 1}}

CommitCached(s) ==
    /\ is_open[s]
    /\ LET r == commit_cached(table, uncommitted[s], cache_values[s], cache_row_count[s]) IN
        /\ table' = r.table
        /\ uncommitted' = [uncommitted EXCEPT ![s] = r.uncommitted]
        /\ cache_values' = [cache_values EXCEPT ![s] = r.cache_values]
        /\ cache_row_count' = [cache_row_count EXCEPT ![s] = r.cache_row_count]
        /\ wrote' = [k \in Keys |->
                        IF r.raised = "" /\ k \in CachedKeys(cache_values[s])
                        THEN NoPut ELSE wrote[k]]
        /\ last' = [NoCall EXCEPT !.op = "commit_cached", !.s = s, !.at = clock,
                        !.raised = r.raised, !.gone = table \ r.table,
                        !.rows = cache_row_count[s]]
    /\ UNCHANGED <<clock, is_open>>

\* KV.commit_cached on a KV object that has been closed: with an empty buffer
\* it returns at once, otherwise cursor.execute raises ProgrammingError
\* (Cannot operate on a closed database).
CommitCachedClosed(s) ==
    /\ ~is_open[s]
    /\ last' = [NoCall EXCEPT !.op = "commit_cached", !.s = s, !.at = clock,
                    !.raised = IF cache_values[s] = <<>> THEN "" ELSE "ProgrammingError",
                    !.rows = cache_row_count[s]]
    /\ UNCHANGED <<clock, table, is_open, uncommitted, cache_values, cache_row_count, wrote>>

\* The state of the memoization layer: the same table, with wrote[k] the call
\* of a memoized function that stored the record k, while it is stored.
InitMemo ==
    /\ clock = 0
    /\ table = {}
    /\ is_open = [s \in Sessions |-> FALSE]
    /\ uncommitted = [s \in Sessions |-> <<>>]
    /\ cache_values = [s \in Sessions |-> <<>>]
    /\ cache_row_count = [s \in Sessions |-> 0]
    /\ wrote = [k \in MemoKeys |-> NoCall]
    /\ last = NoCall

\* A call of the memoized function func; s is the KV object of the wrapper.
Memoize(s, func, args, kwargs) ==
    /\ ~is_open[s]
    /\ LET r == wrapper(table, clock, func, args, kwargs)
           key == IF ArgsSerializable(args, kwargs) THEN MemoKey(func, args, kwargs)
                  ELSE <<>>
           call == [NoCall EXCEPT !.op = "memoize", !.s = s, !.at = clock, !.key = key,
                        !.func = func, !.args = args, !.kwargs = kwargs,
                        !.ttl_seconds = memoize_ttl_seconds(func),
                        !.raised = r.raised, !.result = r.result, !.invoked = r.invoked]
       IN
        /\ table' = r.table
        /\ is_open' = [is_open EXCEPT ![s] = r.is_open]
        /\ wrote' = IF r.invoked /\ r.raised = ""
                    THEN [wrote EXCEPT ![key] =
                            [NoCall EXCEPT !.op = "memoize", !.at = clock, !.func = func,
                                 !.kwargs = kwargs, !.result = r.result]]
                    ELSE wrote
        /\ last' = [call EXCEPT !.gone = table \ r.table]
    /\ UNCHANGED <<clock, uncommitted, cache_values, cache_row_count>>

\* delete_memoized(function); s is the KV object it opens.
DeleteMemoized(s, function) ==
    /\ ~is_open[s]
    /\ LET r == delete_memoized(table, function) IN
        /\ table' = r.table
        /\ is_open' = [is_open EXCEPT ![s] = r.is_open]
        /\ wrote' = [k \in MemoKeys |->
                        IF \E row \in table : row.key = k /\ row \notin r.table
                        THEN NoCall ELSE wrote[k]]
        /\ last' = [NoCall EXCEPT !.op = "delete_memoized", !.s = s, !.at = clock,
                        !.key = MemoPrefix(function), !.func = function,
                        !.raised = r.raised, !.gone = table \ r.table]
    /\ UNCHANGED <<clock, uncommitted, cache_values, cache_row_count>>

\* with KV() as kv: kv.put(key, value)
WithPut(s, key, value) ==
    /\ ~is_open[s]
    /\ LET r == with_put(table, clock, key, value) IN
        /\ table' = r.table
        /\ is_open' = [is_open EXCEPT ![s] = r.is_open]
        /\ last' = [NoCall EXCEPT !.op = "with_put", !.s = s, !.at = clock, !.key = key,
                        !.value = value, !.raised = r.raised, !.gone = table \ r.table]
    /\ UNCHANGED <<clock, uncommitted, cache_values, cache_row_count, wrote>>

\* http.request, called with the method, follow_redirects and max_redirects
\* given, against a server.
Request(method, follow_redirects, max_redirects, server) ==
    /\ LET r == request(Url, method, "None", follow_redirects, max_redirects, server) IN
        last' = [NoCall EXCEPT !.op = "request", !.at = clock, !.url = Url,
                    !.method = method, !.follow_redirects = follow_redirects,
                    !.max_redirects = max_redirects, !.server = server,
                    !.returned = r.returned, !.answered = r.answered,
                    !.sent = r.sent, !.response = r.response]
    /\ UNCHANGED <<clock, table, is_open, uncommitted, cache_values, cache_row_count, wrote>>

\* set_crash_report(enabled)
SetCrashReport(s, enabled) ==
    /\ ~is_open[s]
    /\ LET r == set_crash_report(table, clock, enabled) IN
        /\ table' = r.table
        /\ is_open' = [is_open EXCEPT ![s] = r.is_open]
        /\ last' = [NoCall EXCEPT !.op = "set_crash_report", !.s = s, !.at = clock,
                        !.key = CrashEnabledKey, !.value = enabled,
                        !.raised = r.raised, !.gone = table \ r.table]
    /\ UNCHANGED <<clock, uncommitted, cache_values, cache_row_count, wrote>>

\* A call of a function decorated with crash_reporter.
CrashReporter(s, func_raises, crash_report_url, asserts, connect, server) ==
    /\ ~is_open[s]
    /\ LET r == crash_wrapper(table, clock, func_raises, crash_report_url, asserts,
                              connect, server) IN
        /\ table' = r.table
        /\ is_open' = [is_open EXCEPT ![s] = r.is_open]
        /\ last' = [NoCall EXCEPT !.op = "crash_reporter", !.s = s, !.at = clock,
                        !.func_raises = func_raises, !.url = crash_report_url,
                        !.asserts = asserts, !.connect = connect, !.server = server,
                        !.returned = r.returned, !.raised = r.raised,
                        !.result = r.result, !.posted = r.posted,
                        !.gone = table \ r.table]
    /\ UNCHANGED <<clock, uncommitted, cache_values, cache_row_count, wrote>>

\* The handlers of main.py, each in a store of its own.  A handler called
\* by session s ended with outcome r; `call` holds its arguments.
Handled(s, call, r) ==
    /\ table' = r.table
    /\ is_open' = [is_open EXCEPT ![s] = r.is_open]
    /\ last' = [call EXCEPT !.s = s, !.at = clock, !.called = r.invoked,
                    !.raised = r.raised, !.result = r.result, !.gone = table \ r.table]
    /\ UNCHANGED <<clock, uncommitted, cache_values, cache_row_count, wrote>>

SetupBw(s, setup) ==
    /\ ~is_open[s]
    /\ Handled(s, [NoCall EXCEPT !.op = "setup_bw", !.bw = setup],
               setup_bw(table, clock, setup))

Login(s, email, login_response, unlock_response) ==
    /\ ~is_open[s]
    /\ Handled(s, [NoCall EXCEPT !.op = "login", !.email = email,
                       !.login_response = login_response,
                       !.unlock_response = unlock_response],
               login(table, clock, email, login_response, unlock_response))

ListItems(s, sync_result, list_raises) ==
    /\ ~is_open[s]
    /\ Handled(s, [NoCall EXCEPT !.op = "list_items", !.bw = sync_result,
                       !.func_raises = list_raises],
               list_items(table, clock, sync_result, list_raises))

ListTrash(s, sync_result, list_raises) ==
    /\ ~is_open[s]
    /\ Handled(s, [NoCall EXCEPT !.op = "list_trash", !.bw = sync_result,
                       !.func_raises = list_raises],
               list_trash(table, clock, sync_result, list_raises))

Refresh(s, sync_result) ==
    /\ ~is_open[s]
    /\ Handled(s, [NoCall EXCEPT !.op = "refresh", !.bw = sync_result],
               refresh(table, clock, sync_result))

Logout(s, response) ==
    /\ ~is_open[s]
    /\ Handled(s, [NoCall EXCEPT !.op = "logout", !.bw = response],
               logout(table, clock, response))

GetConfiguration(s) ==
    /\ ~is_open[s]
    /\ Handled(s, [NoCall EXCEPT !.op = "get_configuration"],
               get_configuration(table, clock))

\* The application is left alone for `seconds`, up to `limit` ticks.
Elapse(seconds, limit) ==
    /\ clock + seconds * TicksPerSecond <= limit
    /\ clock' = clock + seconds * TicksPerSecond
    /\ UNCHANGED <<table, is_open, uncommitted, cache_values, cache_row_count, wrote, last>>

\* Opening and closing the sessions S.
SessionCalls(S) ==
    \/ \E s \in S : Open(s)
    \/ \E s \in S : Close(s)

\* Point calls of the sessions S: keys K, values V, ttl_seconds T, defaults D.
PointCalls(S, K, V, T, D) ==
    \/ \E s \in S, key \in K, value \in V, ttl_seconds \in T :
            Put(s, key, value, ttl_seconds)
    \/ \E s \in S, key \in K \ {UnbindableKey}, default \in D, save \in BOOLEAN :
            Get(s, key, default, save)
    \/ \E s \in S, key \in K \ {UnbindableKey} : Delete(s, key)

\* Prefix calls of the sessions S with the prefixes P.
PrefixCalls(S, P) ==
    \/ \E s \in S, beginning \in P : GetPartial(s, beginning)
    \/ \E s \in S, beginning \in P : DeletePartial(s, beginning)

\* Batched writes of the sessions S: keys K, values V, ttl_seconds T.
BatchCalls(S, K, V, T) ==
    \/ \E s \in S, key \in K, value \in V, ttl_seconds \in T :
            PutCached(s, key, value, ttl_seconds)
    \/ \E s \in S : CommitCached(s)

\* Expiry of one key over time: one session, every method is called; the
\* second key is written without ttl and deleted.
Next ==
    \/ Tick(MaxClock)
    \/ SessionCalls({"s1"})
    \/ PointCalls({"s1"}, {<<"a", "b">>}, Values, TtlArgs, {"'d'"})
    \/ PointCalls({"s1"}, {<<"b", "a">>}, {"'x'"}, {None}, {"'d'"})
    \/ PrefixCalls({"s1"}, {<<"a">>})
    \/ BatchCalls({"s1"}, {<<"a", "b">>}, {"'x'"}, {None})

Spec == Init /\ [][Next]_vars

\* Prefix calls: one session, the three keys, every prefix; time passes for
\* one second, long enough for a ttl of one second to elapse.
NextPrefix ==
    \/ Tick(TicksPerSecond)
    \/ SessionCalls({"s1"})
    \/ PointCalls({"s1"}, Keys, {"'x'"}, {None, 1}, {"'d'"})
    \/ PrefixCalls({"s1"}, Prefixes)

SpecPrefix == Init /\ [][NextPrefix]_vars

\* Batched writes: session s1 buffers and flushes rows, some of them with a
\* key that cannot be bound or a value that cannot be serialized; session s2
\* reads and writes the same table meanwhile.  The clock stands still.
NextBatch ==
    \/ SessionCalls(Sessions)
    \/ PointCalls({"s1"}, {<<"a", "b">>, <<"b", "a">>}, {"0", "'x'"}, {None}, {"'d'"})
    \/ PointCalls({"s2"}, {<<"a", "b">>}, {"'x'"}, {None}, {"'d'"})
    \/ PrefixCalls(Sessions, {<<"a">>})
    \/ BatchCalls({"s1"}, {<<"a", "b">>, UnbindableKey},
                  {"0", "'x'", UnserializableValue}, {None})
    \/ CommitCachedClosed("s1")

SpecBatch == Init /\ [][NextBatch]_vars

\* Values: one session writes every serializable value, the falsy ones
\* included, under two keys and reads them back by key and by prefix.  The
\* clock stands still.
NextValues ==
    \/ SessionCalls({"s1"})
    \/ PointCalls({"s1"}, {<<"a", "b">>, <<"b", "a">>}, AllValues, {None}, {"'d'"})
    \/ PrefixCalls({"s1"}, {<<>>, <<"a">>, <<"a", "b">>})

SpecValues == Init /\ [][NextValues]_vars

\* The memoization layer: the functions f and g, decorated with a ttl of one
\* second, are called with every argument list and invalidated while time
\* passes for one second; a with block writes another key of the same table.
NextMemo ==
    \/ Tick(TicksPerSecond)
    \/ \E func \in Functions, c \in Calls : Memoize("s1", func, c.args, c.kwargs)
    \/ \E function \in Functions : DeleteMemoized("s1", function)
    \/ \E value \in {"'x'", UnserializableValue} : WithPut("s1", <<"a", "b">>, value)

SpecMemo == InitMemo /\ [][NextMemo]_vars

\* Function identity: f and the function C.f of the same module are called
\* with the same arguments and invalidated, g is invalidated, and a with
\* block writes a key that is not a memoized record.
NextIdentity ==
    \/ Tick(TicksPerSecond)
    \/ \E func \in {"f", Namesake}, args \in {<<"0">>, <<"'x'">>} :
            Memoize("s1", func, args, NoKwargs)
    \/ \E function \in Callables : DeleteMemoized("s1", function)
    \/ WithPut("s1", <<"a", "b">>, "'x'")

SpecIdentity == InitMemo /\ [][NextIdentity]_vars

\* The methods of a request, the largest max_redirects asked for, the servers.
Methods == {"GET", "POST"}

MaxRedirects == 2

Servers == [Hosts -> Answers]

\* The server is the same for the whole of a behaviour: the initial state
\* draws it, and the record of each call carries it on.
InitHttp ==
    /\ clock = 0
    /\ table = {}
    /\ is_open = [s \in Sessions |-> FALSE]
    /\ uncommitted = [s \in Sessions |-> <<>>]
    /\ cache_values = [s \in Sessions |-> <<>>]
    /\ cache_row_count = [s \in Sessions |-> 0]
    /\ wrote = [k \in Keys |-> NoPut]
    /\ last \in {[NoCall EXCEPT !.server = server] : server \in Servers}

\* HTTP requests against the server.
NextHttp ==
    \E method \in Methods, follow_redirects \in BOOLEAN, max_redirects \in 0..MaxRedirects :
            Request(method, follow_redirects, max_redirects, last.server)

SpecHttp == InitHttp /\ [][NextHttp]_vars

\* The exceptions of the wrapped function, the servers that receive a report
\* and accept it or cannot be reached, the errors of opening the store.
Exceptions == {"ValueError", "KeyError"}

ReportServers ==
    {[h \in Hosts |-> [kind |-> k, code |-> c, location |-> NoUrl]] :
        <<k, c>> \in {<<"response", 200>>, <<"URLError", 0>>}}

ConnectErrors == {"OperationalError"}

\* The crash preference set and read, decorated functions called.
NextCrash ==
    \/ \E enabled \in {"True", "False"} : SetCrashReport("s1", enabled)
    \/ \E func_raises \in Exceptions \cup {""}, crash_report_url \in {NoUrl, Url},
          asserts \in BOOLEAN, connect \in ConnectErrors \cup {""},
          server \in ReportServers :
            CrashReporter("s1", func_raises, crash_report_url, asserts, connect, server)

SpecCrash == Init /\ [][NextCrash]_vars

\* Batched writes over time: one session buffers rows of one key, with two
\* values, with and without ttl, and flushes them sooner or later; it reads
\* the key.
NextBatchTtl ==
    \/ Tick(MaxClock)
    \/ SessionCalls({"s1"})
    \/ BatchCalls({"s1"}, {<<"a", "b">>}, {"0", "'x'"}, {None, 1})
    \/ Get("s1", <<"a", "b">>, "'d'", FALSE)

SpecBatchTtl == Init /\ [][NextBatchTtl]_vars


\* The responses of bw: a login gives the session code 'd', an unlock the
\* session code 'x'.
SetupResponses == {[success |-> b, data |-> ""] : b \in BOOLEAN}
LoginResponses == {[success |-> b, data |-> "'d'"] : b \in BOOLEAN}
UnlockResponses == {[success |-> b, data |-> "'x'"] : b \in BOOLEAN}
SyncResponses == {[success |-> b, data |-> ""] : b \in BOOLEAN}
LogoutResponses ==
    {[success |-> TRUE, data |-> ""], [success |-> FALSE, data |-> "'x'"],
     [success |-> FALSE, data |-> "'You are not logged in.'"]}
Emails == {"", "e"}

\* The application at one instant: set up, logged in and out, synced, its
\* configuration read and its crash preference set.
NextApp ==
    \/ \E setup \in SetupResponses : SetupBw("s1", setup)
    \/ \E email \in Emails, login_response \in LoginResponses,
          unlock_response \in UnlockResponses :
            Login("s1", email, login_response, unlock_response)
    \/ \E sync_result \in SyncResponses : Refresh("s1", sync_result)
    \/ \E response \in LogoutResponses : Logout("s1", response)
    \/ GetConfiguration("s1")
    \/ \E enabled \in {"True", "False"} : SetCrashReport("s1", enabled)

SpecApp == Init /\ [][NextApp]_vars

\* The last second before a flag written at time 0 has expired.
Eve == (SyncTtlSeconds - 1) * TicksPerSecond

\* The lists over the day the sync flag lives and the seconds around its
\* end: the vault unlocked and logged out of, listed and refreshed.
NextSync ==
    \/ Tick(MaxClock)
    \/ Elapse(SyncTtlSeconds - 1, Eve + MaxClock)
    \/ (clock >= Eve /\ Tick(Eve + MaxClock))
    \/ \E unlock_response \in UnlockResponses :
            Login("s1", "", [success |-> FALSE, data |-> "'d'"], unlock_response)
    \/ \E sync_result \in SyncResponses, list_raises \in {"", "ValueError"} :
            ListItems("s1", sync_result, list_raises)
    \/ \E sync_result \in SyncResponses, list_raises \in {"", "ValueError"} :
            ListTrash("s1", sync_result, list_raises)
    \/ \E sync_result \in SyncResponses : Refresh("s1", sync_result)
    \/ Logout("s1", [success |-> TRUE, data |-> ""])

SpecSync == Init /\ [][NextSync]_vars

(***************************************************************************)
(* Properties.                                                             *)
(***************************************************************************)
\* The step is a call of method op (time does not pass during a call, and
\* every call records itself in last).
Called(op) == clock' = clock /\ last'.op = op

\* The row of table kv for a key, if there is one.
RowsOf(rows, key) == {r \in rows : r.key = key}

\* C1 -- TTL correctness: a get(k) made at the instant of a successful
\* put(k, v, ttl) with ttl > 0 returns v; and a get(k, default=D) made when
\* the clock has reached put-time + ttl, with no write to k since that put,
\* returns D.
C1_TtlCorrectness ==
    [][ /\ ( /\ Called("get")
             /\ last.op = "put" /\ last.raised = ""
             /\ last.ttl_seconds # None /\ last.ttl_seconds > 0
             /\ last.at = clock
             /\ last'.key = last.key )
           => last'.result = last.value
        /\ ( /\ Called("get")
             /\ wrote[last'.key].put
             /\ wrote[last'.key].ttl_seconds # None /\ wrote[last'.key].ttl_seconds > 0
             /\ clock >= wrote[last'.key].at + wrote[last'.key].ttl_seconds * TicksPerSecond )
           => last'.result = last'.default
      ]_vars

\* C1 witness: a get returned its default for a key whose put with ttl > 0
\* has elapsed, the row still being stored.
C1_Witness ==
    /\ last.op = "get" /\ ~last.save
    /\ wrote[last.key].put
    /\ wrote[last.key].ttl_seconds # None /\ wrote[last.key].ttl_seconds > 0
    /\ last.at >= wrote[last.key].at + wrote[last.key].ttl_seconds * TicksPerSecond
    /\ last.result = last.default
    /\ RowsOf(table, last.key) # {}

\* C2 -- No-TTL permanence: while the last write to k is a put(k, v) without
\* ttl and no delete, delete_partial or flush has touched k since, every
\* get(k) returns v, whatever the clock.
C2_NoTtlPermanence ==
    [][ ( /\ Called("get")
          /\ wrote[last'.key].put
          /\ wrote[last'.key].ttl_seconds = None )
        => last'.result = wrote[last'.key].value
      ]_vars

\* C2 witness: at the last instant of the clock a get returned the value put
\* without ttl, and not its default.
C2_Witness ==
    /\ last.op = "get" /\ last.at = MaxClock
    /\ wrote[last.key].put /\ wrote[last.key].ttl_seconds = None
    /\ last.result = wrote[last.key].value
    /\ last.result # last.default


\* The last row buffered for a key in a flat parameter list.
LastCached(values, key) ==
    LET n == Len(values) \div 3
        i == CHOOSE i \in 1..n :
                /\ values[3 * i - 2] = key
                /\ \A j \in (i + 1)..n : values[3 * j - 2] # key
    IN  ParamRow(values, i)

\* C3 -- Insert-or-replace: the table never holds two rows with one key; a
\* successful put(k, v) leaves exactly the row of v under k, whatever was
\* stored under k before, and a get(k) then returns v; a successful flush
\* leaves under every buffered key exactly the row buffered last for it.
C3_InsertOrReplace ==
    /\ [](\A r1, r2 \in table : r1.key = r2.key => r1 = r2)
    /\ [][ /\ (Called("put") /\ last'.raised = "")
              => /\ \E r \in table' :
                    /\ RowsOf(table', last'.key) = {r}
                    /\ r.value = _encode_value(last'.value)
                 /\ get(table', uncommitted'[last'.s], clock', last'.key, "'d'",
                        FALSE).result = last'.value
           /\ (Called("commit_cached") /\ last'.raised = "")
              => \A k \in CachedKeys(cache_values[last'.s]) :
                    /\ RowsOf(table', k) = {LastCached(cache_values[last'.s], k)}
                    /\ get(table', uncommitted'[last'.s], clock', k, "'d'", FALSE).result
                         = _decode_value(LastCached(cache_values[last'.s], k).value)
         ]_vars

\* C3 witness: a put replaced the row that held another value under its key,
\* and one row is stored under the key.
C3_Witness ==
    /\ last.op = "put" /\ last.raised = ""
    /\ \E old \in last.gone :
          old.key = last.key /\ old.value # _encode_value(last.value)
    /\ Cardinality(RowsOf(table, last.key)) = 1

\* The instant ttl (in seconds) is not in the future at the time `ticks`.
ExpiredAt(row, ticks) == row.ttl # None /\ row.ttl * TicksPerSecond <= ticks

\* C4 -- Lazy expiry: get returns its default when the row of the key has an
\* expiry that is not in the future, and get_partial returns no such row; a
\* get_partial and a get that does not save its default leave the table as it
\* is, and a get that saves its default replaces only the row of its key.
C4_LazyExpiry ==
    [][ /\ ( /\ Called("get")
             /\ \A r \in RowsOf(table, last'.key) : ExpiredAt(r, clock) )
           => last'.result = last'.default
        /\ Called("get_partial")
           => /\ \A i \in 1..Len(last'.pairs) :
                    \A r \in RowsOf(table, last'.pairs[i][1]) : ~ExpiredAt(r, clock)
              /\ table' = table
        /\ (Called("get") /\ ~last'.save) => table' = table
        /\ (Called("get") /\ last'.save)
           => \/ table' = table
              \/ table' = {r \in table : r.key # last'.key}
                            \cup {[key |-> last'.key, ttl |-> None,
                                   value |-> _encode_value(last'.default)]}
      ]_vars

\* C4 witness: get_partial left out a row that matches its prefix and has
\* expired, and the row is still stored.
C4_Witness ==
    /\ last.op = "get_partial"
    /\ \E r \in table :
          /\ KeyLikePrefix(r.key, last.key)
          /\ ExpiredAt(r, last.at)
          /\ \A i \in 1..Len(last.pairs) : last.pairs[i][1] # r.key

\* key starts with prefix, character for character
StartsWith(key, prefix) ==
    Len(prefix) <= Len(key) /\ SubSeq(key, 1, Len(prefix)) = prefix

\* The keys of a list of (key, value) pairs.
PairKeys(pairs) == {pairs[i][1] : i \in 1..Len(pairs)}

\* C5 -- Prefix scan exactness: get_partial(p) returns exactly the unexpired
\* entries whose key starts with p, character for character.
C5_PrefixScanExact ==
    last.op = "get_partial"
    => /\ PairKeys(last.pairs)
            = {r.key : r \in {x \in table : StartsWith(x.key, last.key)
                                              /\ ~ExpiredAt(x, last.at)}}
       /\ \A i \in 1..Len(last.pairs) :
            \E r \in table : r.key = last.pairs[i][1]
                             /\ _decode_value(r.value) = last.pairs[i][2]

\* C6 -- Prefix delete scope: delete_partial(p) removes the entries whose key
\* starts with p, expired or not, and leaves every other entry unchanged.
C6_PrefixDeleteScope ==
    [][ Called("delete_partial")
        => table' = {r \in table : ~StartsWith(r.key, last'.key)} ]_vars

\* C7 -- Batch atomicity: a successful commit_cached stores every buffered
\* row in that one step; a commit_cached that raises stores none of them and
\* leaves nothing on the connection for a later commit, so the connection
\* never holds uncommitted rows between calls.
C7_BatchAtomicity ==
    /\ [](\A s \in Sessions : uncommitted[s] = <<>>)
    /\ [][ Called("commit_cached")
           => IF last'.raised = ""
              THEN table' = InsertOrReplaceAll(table,
                                ParamRows(cache_values[last'.s],
                                          cache_row_count[last'.s]))
              ELSE table' = table /\ uncommitted' = uncommitted
         ]_vars

\* C7 witness: commit_cached raised on a buffer of two rows, one with a key
\* that cannot be bound and one with a key that is not stored.
C7_Witness ==
    /\ last.op = "commit_cached" /\ last.raised # ""
    /\ last.rows = 2
    /\ UnbindableKey \in CachedKeys(cache_values[last.s])
    /\ \E k \in CachedKeys(cache_values[last.s]) :
          Bindable(k) /\ RowsOf(table, k) = {}

\* C8 -- A commit_cached that raises leaves cache_values and cache_row_count
\* as they were before the call.
C8_BufferKeptOnFailure ==
    [][ (Called("commit_cached") /\ last'.raised # "")
        => /\ cache_values' = cache_values
           /\ cache_row_count' = cache_row_count
           /\ cache_values[last'.s] # <<>>
      ]_vars

\* C8 witness: commit_cached raised and the buffer holds the rows it held.
C8_Witness ==
    /\ last.op = "commit_cached" /\ last.raised # ""
    /\ cache_row_count[last.s] = last.rows
    /\ Len(cache_values[last.s]) = 3 * last.rows
    /\ last.rows > 0

\* C9 -- put_cached never touches durable storage: the call leaves the table
\* and every connection as they are, so every get and get_partial of every
\* session returns after it what it returned before it.
C9_PutCachedFrame ==
    [][ Called("put_cached")
        => /\ table' = table
           /\ uncommitted' = uncommitted
           /\ \A s \in Sessions :
                /\ \A k \in Keys :
                     get(table', uncommitted'[s], clock', k, "'d'", FALSE).result
                       = get(table, uncommitted[s], clock, k, "'d'", FALSE).result
                /\ \A p \in Prefixes :
                     get_partial(table', uncommitted'[s], clock', p)
                       = get_partial(table, uncommitted[s], clock, p)
      ]_vars

\* C9 witness: a row is buffered under a key that is not stored, while the
\* other session is open.
C9_Witness ==
    /\ last.op = "put_cached" /\ last.raised = ""
    /\ last.key \in CachedKeys(cache_values[last.s])
    /\ RowsOf(table, last.key) = {}
    /\ \E s \in Sessions : s # last.s /\ is_open[s]

\* C10 -- commit_cached is safe to repeat: with an empty buffer it changes
\* nothing and raises nothing, and a commit_cached that succeeds leaves the
\* buffer empty.
C10_FlushRepeatable ==
    [][ Called("commit_cached")
        => /\ cache_values[last'.s] = <<>>
              => /\ last'.raised = ""
                 /\ UNCHANGED <<table, uncommitted, cache_values, cache_row_count>>
           /\ last'.raised = ""
              => /\ cache_values'[last'.s] = <<>>
                 /\ cache_row_count'[last'.s] = 0
      ]_vars

\* C10 witness: commit_cached was called with an empty buffer and raised
\* nothing, while the row of a put made since the last flush of its key is
\* stored and another key is absent.
C10_Witness ==
    /\ last.op = "commit_cached" /\ last.raised = "" /\ last.rows = 0
    /\ \E k \in Keys :
          /\ wrote[k].put
          /\ \E r \in RowsOf(table, k) : r.value = _encode_value(wrote[k].value)
    /\ RowsOf(table, <<"a", "b">>) = {}


\* C11 -- No implicit flush on close: close leaves the table as it is, so the
\* rows buffered and not flushed are not stored by it; a commit_cached on the
\* closed object stores nothing; and the KV object of a later session starts
\* with an empty buffer.
C11_NoFlushOnClose ==
    [][ /\ Called("close") => table' = table
        /\ (Called("commit_cached") /\ ~is_open[last'.s]) => table' = table
        /\ Called("open")
           => /\ table' = table
              /\ cache_values'[last'.s] = <<>>
              /\ cache_row_count'[last'.s] = 0
      ]_vars

\* C11 witness: a session was closed with a buffered row whose key is not
\* stored.
C11_Witness ==
    /\ last.op = "close" /\ last.rows > 0
    /\ ~is_open[last.s]
    /\ \E k \in CachedKeys(cache_values[last.s]) :
          Bindable(k) /\ RowsOf(table, k) = {}


\* The unexpired row that a get of `key` by session s selects, if any.
Selected(s, key) == SelectValue(View(table, uncommitted[s]), key, NowSeconds(clock))

\* C16 as stated -- Falsy/absence conflation: when k holds an unexpired falsy
\* value, get(k, default=D) returns D, and with save_default_if_not_set it
\* leaves D stored under k.
C16_FalsyConflation ==
    [][ ( /\ Called("get")
          /\ \E r \in Selected(last'.s, last'.key) : _decode_value(r.value) \in FalsyValues )
        => /\ last'.result = last'.default
           /\ last'.save
              => \E r \in table' : /\ RowsOf(table', last'.key) = {r}
                                   /\ r.value = _encode_value(last'.default)
      ]_vars

\* C16 amended -- when k holds an unexpired falsy value (0, "", false, empty
\* list), get(k, default=D) returns the stored value, not D, and with
\* save_default_if_not_set it stores nothing: the table is left as it is.
C16_StoredFalsyReturned ==
    [][ Called("get")
        => \A r \in Selected(last'.s, last'.key) :
              _decode_value(r.value) \in FalsyValues
              => /\ last'.result = _decode_value(r.value)
                 /\ last'.raised = ""
                 /\ table' = table
      ]_vars

\* C16 witness: a get with a default and save_default_if_not_set returned the
\* falsy value stored under its key, which is still stored.
C16_Witness ==
    /\ last.op = "get" /\ last.save
    /\ last.result \in FalsyValues
    /\ last.result # last.default
    /\ \E r \in RowsOf(table, last.key) : _decode_value(r.value) = last.result

\* C17 -- Save-default-if-absent: when no unexpired row is stored under k,
\* get(k, default=D, save_default_if_not_set=True) returns D and leaves under
\* k exactly the row of D without expiry, so that a plain get(k) on that
\* table returns D now and at every later time.
C17_SaveDefaultIfAbsent ==
    [][ ( /\ Called("get") /\ last'.save /\ last'.raised = ""
          /\ Selected(last'.s, last'.key) = {} )
        => /\ last'.result = last'.default
           /\ RowsOf(table', last'.key)
                = {[key |-> last'.key, value |-> _encode_value(last'.default), ttl |-> None]}
           /\ \A ticks \in clock..(MaxClock + TicksPerSecond) :
                get(table', uncommitted'[last'.s], ticks, last'.key, "None", FALSE).result
                    = last'.default
      ]_vars

\* C17 witness: a get saved its default over the expired row of its key.
C17_Witness ==
    /\ last.op = "get" /\ last.save /\ last.raised = ""
    /\ \E r \in last.gone : r.key = last.key /\ ExpiredAt(r, last.at)
    /\ last.result = last.default
    /\ \E r \in RowsOf(table, last.key) : r.value = _encode_value(last.default)

\* The ttl column the claim gives for a ttl_seconds argument.
ExpiryOfGiven(ticks, ttl_seconds) ==
    IF ttl_seconds = None THEN None ELSE ExpiryOf(ticks, ttl_seconds)

\* C18 -- Expiry computation in put and put_cached: the row written (put) or
\* buffered (put_cached) holds the expiry now + ttl_seconds whenever
\* ttl_seconds is given, 0 included, and no expiry only when it is omitted.
C18_ExpiryOfGivenTtl ==
    [][ /\ (Called("put") /\ last'.raised = "")
           => \A r \in RowsOf(table', last'.key) :
                 r.ttl = ExpiryOfGiven(clock, last'.ttl_seconds)
        /\ (Called("put_cached") /\ last'.raised = "")
           => LET values == cache_values'[last'.s] IN
              values[Len(values)] = ExpiryOfGiven(clock, last'.ttl_seconds)
      ]_vars

\* C19 -- Value round-trip with null distinct from absence: a get_partial
\* whose prefix starts k returns the pair (k, v) when the last write of k is a
\* put(k, v) without ttl, null, false, 0 and "" included, and returns no pair
\* of k when no row is stored under k.
C19_ValueRoundTrip ==
    [][ Called("get_partial")
        => \A k \in Keys :
              StartsWith(k, last'.key)
              => /\ (wrote[k].put /\ wrote[k].ttl_seconds = None)
                    => \E i \in 1..Len(last'.pairs) :
                          last'.pairs[i] = <<k, wrote[k].value>>
                 /\ RowsOf(View(table, uncommitted[last'.s]), k) = {}
                    => k \notin PairKeys(last'.pairs)
      ]_vars

\* C19 witness: a get_partial returned the pair of a key put with the value
\* null, and no pair for another key with the same prefix that is not stored.
C19_Witness ==
    /\ last.op = "get_partial"
    /\ \E i \in 1..Len(last.pairs) :
          /\ last.pairs[i][2] = "None"
          /\ wrote[last.pairs[i][1]].put
          /\ wrote[last.pairs[i][1]].value = "None"
    /\ \E k \in Keys \ PairKeys(last.pairs) :
          StartsWith(k, last.key) /\ RowsOf(table, k) = {} /\ k # <<"A", "b">>


\* C12 -- Memoization hit/miss: a call F(A) made less than the ttl after the
\* call F(A) that stored the record does not invoke the wrapped function and
\* returns the result of that call, whatever the result, None included; a
\* call whose record is not stored invokes the wrapped function.
C12_MemoizationHitMiss ==
    [][ (Called("memoize") /\ last'.key \in MemoKeys)
        => /\ ( /\ wrote[last'.key].op = "memoize"
                /\ clock < wrote[last'.key].at + last'.ttl_seconds * TicksPerSecond )
              => /\ ~last'.invoked
                 /\ last'.result = wrote[last'.key].result
           /\ RowsOf(table, last'.key) = {} => last'.invoked
      ]_vars

\* C13 -- Invalidation completeness: delete_memoized(F) leaves no row whose
\* key starts with the prefix of F, whatever its ttl, so that a call of F with
\* any arguments, then or later, invokes the wrapped function.
C13_InvalidationCompleteness ==
    [][ /\ Called("delete_memoized")
           => /\ \A r \in table' : ~StartsWith(r.key, MemoPrefix(last'.func))
              /\ \A c \in Calls :
                    ArgsSerializable(c.args, c.kwargs)
                    => wrapper(table', clock, last'.func, c.args, c.kwargs).invoked
        /\ ( /\ Called("memoize") /\ last'.key \in MemoKeys
             /\ last.op = "delete_memoized" /\ last.func = last'.func )
           => last'.invoked
      ]_vars

\* C13 witness: a delete_memoized removed the records of two argument lists,
\* one of them not yet expired.
C13_Witness ==
    /\ last.op = "delete_memoized"
    /\ \E r1, r2 \in last.gone :
          /\ r1.key # r2.key
          /\ ~ExpiredAt(r1, last.at)
    /\ \A r \in table : ~StartsWith(r.key, MemoPrefix(last.func))

\* C14 -- Caching failures never mask a computation: when the wrapped
\* function returns a result that cannot be serialized, the wrapper returns
\* that result and does not raise.
C14_CachingFailureNotMasking ==
    [][ ( /\ Called("memoize") /\ last'.invoked
          /\ Func(last'.func, last'.args, last'.kwargs).raised = ""
          /\ ~Serializable(Func(last'.func, last'.args, last'.kwargs).result) )
        => /\ last'.raised = ""
           /\ last'.result = Func(last'.func, last'.args, last'.kwargs).result
      ]_vars

\* kwargs equal as mappings: the same (name, value) pairs in any order.
SameMapping(kwargs1, kwargs2) ==
    {kwargs1[i] : i \in DOMAIN kwargs1} = {kwargs2[i] : i \in DOMAIN kwargs2}

\* C15 -- Argument-order independence: two calls of one function with the
\* same positional arguments and keyword arguments equal as a mapping derive
\* the same key, whatever the order of the keyword arguments; so a call finds
\* the unexpired record stored by a call that passed them in another order,
\* and returns its result (one other than None) without invoking the
\* function.
C15_ArgumentOrderIndependence ==
    /\ [](\A func \in Functions, c1, c2 \in Calls :
            ( /\ ArgsSerializable(c1.args, c1.kwargs)
              /\ ArgsSerializable(c2.args, c2.kwargs)
              /\ c1.args = c2.args /\ SameMapping(c1.kwargs, c2.kwargs) )
            => MemoKey(func, c1.args, c1.kwargs) = MemoKey(func, c2.args, c2.kwargs))
    /\ [][ ( /\ Called("memoize") /\ last'.key \in MemoKeys
             /\ wrote[last'.key].op = "memoize"
             /\ wrote[last'.key].kwargs # last'.kwargs
             /\ wrote[last'.key].result # "None"
             /\ Selected(last'.s, last'.key) # {} )
           => /\ ~last'.invoked
              /\ last'.result = wrote[last'.key].result
         ]_vars

\* C15 witness: a call was served from the record stored by a call that
\* passed the same keyword arguments in another order.
C15_Witness ==
    /\ last.op = "memoize" /\ ~last.invoked /\ last.raised = ""
    /\ last.kwargs # <<>>
    /\ wrote[last.key].op = "memoize"
    /\ wrote[last.key].kwargs # last.kwargs
    /\ SameMapping(wrote[last.key].kwargs, last.kwargs)
    /\ last.result = wrote[last.key].result

C21_MemoizedTtl ==
    [][ (Called("memoize") /\ last'.key \in MemoKeys)
        => /\ (last'.invoked /\ last'.raised = "")
              => RowsOf(table', last'.key)
                   = {[key |-> last'.key, value |-> _encode_value(last'.result),
                       ttl |-> ExpiryOf(clock, last'.ttl_seconds)]}
           /\ ( /\ wrote[last'.key].op = "memoize"
                /\ clock >= wrote[last'.key].at + last'.ttl_seconds * TicksPerSecond )
              => last'.invoked
      ]_vars

\* C21 witness: a call invoked the function again and replaced the expired
\* record of its arguments by one with a later expiry.
C21_Witness ==
    /\ last.op = "memoize" /\ last.invoked /\ last.raised = ""
    /\ \E old \in last.gone, new \in table :
          /\ old.key = last.key /\ new.key = last.key
          /\ ExpiredAt(old, last.at)
          /\ new.ttl > old.ttl


\* C22 -- Function-identity namespacing: the records of two wrapped
\* callables with different identities are kept apart: a call served from
\* the store returns a result stored by a call of the same callable, and
\* delete_memoized(F) leaves the records stored by every other callable, and
\* every key that is not a memoized record, as they are.
C22_FunctionNamespacing ==
    [][ /\ (Called("memoize") /\ ~last'.invoked /\ last'.raised = "")
           => wrote[last'.key].func = last'.func
        /\ Called("delete_memoized")
           => \A r \in table :
                 (r.key \notin MemoKeys \/ wrote[r.key].func # last'.func)
                 => r \in table'
      ]_vars


C24_DeleteFrame ==
    [][ Called("delete")
        => /\ last'.raised = ""
           /\ table' = {r \in table : r.key # last'.key}
           /\ \A ticks \in clock..MaxClock :
                get(table', uncommitted'[last'.s], ticks, last'.key, "'d'", FALSE).result
                    = "'d'"
      ]_vars

\* C24 witness: a delete removed the expired row of its key while another key
\* is stored.
C24_Witness ==
    /\ last.op = "delete"
    /\ \E r \in last.gone : r.key = last.key /\ ExpiredAt(r, last.at)
    /\ \E r \in table : r.key # last.key


\* C25 -- When an argument of the call cannot be serialized, the wrapper
\* raises without having invoked the wrapped function, and the table is left
\* as it is.
C25_UnserializableArguments ==
    [][ (Called("memoize") /\ ~ArgsSerializable(last'.args, last'.kwargs))
        => /\ last'.raised # ""
           /\ ~last'.invoked
           /\ table' = table
      ]_vars

\* C25 witness: a call with a set for argument raised TypeError while records
\* are stored.
C25_Witness ==
    /\ last.op = "memoize" /\ last.args = <<UnserializableValue>>
    /\ last.raised = "TypeError" /\ ~last.invoked
    /\ \E r \in table : r.key \in MemoKeys

\* C26 -- Whenever the wrapped function raises an exception, the wrapper of
\* crash_reporter raises that same exception to its caller: with reporting
\* disabled, enabled with or without a configured URL, and when the lookup of
\* the preference or the report fails.
C26_OriginalReraised ==
    [][ (Called("crash_reporter") /\ last'.func_raises # "")
        => last'.raised = last'.func_raises
      ]_vars


\* What a call of urlopen gave is a redirect carrying a Location.
Redirected(e) == e.kind = "HTTPError" /\ e.code \in RedirectCodes /\ e.location # NoUrl

\* C27 -- Every call of request returns, having sent at most max_redirects
\* HTTP requests, and when every attempt was answered by a redirect carrying a
\* Location the Response is the failure with status 0 and the body
\* 'Maximum redirects exceeded'.
C27_AtMostMaxRedirectsAttempts ==
    last.op = "request"
    => /\ last.returned
       /\ last.sent <= last.max_redirects
       /\ (\A i \in 1..Len(last.answered) : Redirected(last.answered[i]))
            => /\ ~last.response.success
               /\ last.response.status_code = 0
               /\ last.response.data = "Maximum redirects exceeded"


\* C28 -- No early expiry: while the last write to k is a put(k, v, ttl) with
\* ttl >= 1 made at t0, a get(k) at every t with t0 <= t < t0 + ttl returns v.
C28_NoEarlyExpiry ==
    [][ ( /\ Called("get")
          /\ wrote[last'.key].put
          /\ wrote[last'.key].ttl_seconds # None /\ wrote[last'.key].ttl_seconds >= 1
          /\ wrote[last'.key].at <= clock
          /\ clock < wrote[last'.key].at + wrote[last'.key].ttl_seconds * TicksPerSecond )
        => last'.result = wrote[last'.key].value
      ]_vars


\* C29 -- The expiry of a buffered write is fixed when put_cached is called:
\* put_cached at t0 with ttl T >= 1 buffers the row with the expiry of t0 and
\* T, and a commit_cached that flushes it, whatever the time of the flush,
\* writes the row with that expiry, so that no get at or after t0 + T returns
\* the value.
C29_BufferedExpiryFixed ==
    [][ /\ (Called("put_cached") /\ last'.raised = "")
           => SubSeq(cache_values'[last'.s], Len(cache_values'[last'.s]) - 2,
                     Len(cache_values'[last'.s]))
                = <<last'.key, _encode_value(last'.value), TtlColumn(clock, last'.ttl_seconds)>>
        /\ ( /\ Called("commit_cached") /\ last'.raised = ""
             /\ last.op = "put_cached" /\ last.raised = "" /\ last.s = last'.s
             /\ last.ttl_seconds # None /\ last.ttl_seconds >= 1 )
           => /\ RowsOf(table', last.key)
                    = {[key |-> last.key, value |-> _encode_value(last.value),
                        ttl |-> ExpiryOf(last.at, last.ttl_seconds)]}
              /\ \A ticks \in clock..(MaxClock + 1) :
                    ticks >= last.at + last.ttl_seconds * TicksPerSecond
                    => get(table', <<>>, ticks, last.key, "'d'", FALSE).result = "'d'"
      ]_vars

\* C29 witness: a commit_cached flushed the row of the key a whole second or
\* more after its expiry, and the row is stored with that expiry.
C29_Witness ==
    /\ last.op = "commit_cached" /\ last.raised = "" /\ last.rows > 0
    /\ \E r \in table :
          /\ r.key = <<"a", "b">>
          /\ r.ttl # None /\ (r.ttl + 1) * TicksPerSecond <= last.at


\* The latest instant the properties look at: later than every expiry stored.
Horizon == MaxClock + 2 * TicksPerSecond

\* C30 -- A successful put to a key that is stored replaces the expiry with
\* the value: the row holds the expiry of this put alone.  After a put without
\* ttl the key is permanent, whatever expiry the old row had: get returns the
\* value at every later instant.  After a put with ttl >= 1 the key expires,
\* although the old row had no expiry: get returns the value at the instant of
\* the put and the default once the ttl has elapsed.
C30_ExpiryReplaced ==
    [][ (Called("put") /\ last'.raised = "" /\ RowsOf(table, last'.key) # {})
        => /\ \A r \in RowsOf(table', last'.key) :
                    r.ttl = TtlColumn(clock, last'.ttl_seconds)
           /\ last'.ttl_seconds = None
                => \A ticks \in clock..Horizon :
                       get(table', <<>>, ticks, last'.key, "'d'", FALSE).result = last'.value
           /\ (last'.ttl_seconds # None /\ last'.ttl_seconds >= 1)
                => /\ get(table', <<>>, clock, last'.key, "'d'", FALSE).result = last'.value
                   /\ \A ticks \in clock..Horizon :
                          ticks >= clock + last'.ttl_seconds * TicksPerSecond
                          => get(table', <<>>, ticks, last'.key, "'d'", FALSE).result = "'d'"
      ]_vars

\* C30 witness: a put without ttl replaced the row of its key, which had an
\* expiry that had not been reached, and the row stored has no expiry.
C30_Witness ==
    /\ last.op = "put" /\ last.raised = "" /\ last.ttl_seconds = None
    /\ \E old \in last.gone :
          old.key = last.key /\ old.ttl # None /\ ~ExpiredAt(old, last.at)
    /\ \A r \in RowsOf(table, last.key) : r.ttl = None


\* C31 -- get without save_default_if_not_set, and get_partial, are read-only:
\* the rows of the table, the pending rows of the transaction and the buffer
\* of put_cached are after the call what they were before it, also when the
\* row asked for has expired.
C31_ReadOnly ==
    [][ ((Called("get") /\ ~last'.save) \/ Called("get_partial"))
        => /\ table' = table
           /\ uncommitted' = uncommitted
           /\ cache_values' = cache_values
           /\ cache_row_count' = cache_row_count
      ]_vars

\* C31 witness: a get without save returned its default for a key whose
\* expired row is still stored, while rows are buffered.
C31_Witness ==
    /\ last.op = "get" /\ ~last.save /\ last.result = last.default
    /\ \E r \in table : r.key = last.key /\ ExpiredAt(r, last.at)
    /\ cache_values[last.s] # <<>>


\* The number of rows of the flat parameter list that have the key.
CachedCount(values, key) ==
    Cardinality({i \in 1..(Len(values) \div 3) : values[3 * i - 2] = key})

\* C32 -- When the buffer holds several rows of one key, a successful
\* commit_cached leaves exactly one row of that key in the table, with the
\* value and the expiry of the row that was buffered last.
C32_LastBufferedWins ==
    [][ (Called("commit_cached") /\ last'.raised = "")
        => \A k \in CachedKeys(cache_values[last'.s]) :
              CachedCount(cache_values[last'.s], k) >= 2
              => LET n == Len(cache_values[last'.s]) \div 3
                     latest == CHOOSE i \in 1..n :
                                  /\ cache_values[last'.s][3 * i - 2] = k
                                  /\ \A j \in 1..n :
                                        cache_values[last'.s][3 * j - 2] = k => j <= i
                 IN  /\ Cardinality(RowsOf(table', k)) = 1
                     /\ \A r \in RowsOf(table', k) :
                           /\ r.value = cache_values[last'.s][3 * latest - 1]
                           /\ r.ttl = cache_values[last'.s][3 * latest]
      ]_vars

\* C32 witness: a commit_cached flushed two or more rows, all of one key, and
\* one row of the key is stored, with an expiry.
C32_Witness ==
    /\ last.op = "commit_cached" /\ last.raised = "" /\ last.rows >= 2
    /\ Cardinality(RowsOf(table, <<"a", "b">>)) = 1
    /\ \E r \in table : r.ttl # None /\ r.value = _encode_value("0")


\* C33 -- Flush order beats call order: when a put or a delete of a key is
\* called while a row of that key is buffered, a successful commit_cached
\* called next leaves the buffered row under the key, so that get returns the
\* buffered value (of a row buffered without ttl: then and at every later
\* instant), not the value of the put nor the default.
C33_FlushOverridesDirectWrite ==
    [][ ( /\ Called("commit_cached") /\ last'.raised = ""
          /\ last.op \in {"put", "delete"} /\ last.raised = ""
          /\ last.key \in CachedKeys(cache_values[last'.s]) )
        => LET buffered == LastCached(cache_values[last'.s], last.key) IN
           /\ RowsOf(table', last.key) = {buffered}
           /\ \A ticks \in clock..Horizon :
                 (buffered.ttl = None \/ (ticks = clock /\ ~ExpiredAt(buffered, clock)))
                 => get(table', <<>>, ticks, last.key, "'d'", FALSE).result
                      = _decode_value(buffered.value)
      ]_vars

\* C33 witness: a commit_cached replaced the row that a put had written with
\* another value under the key, by the buffered row.
C33_Witness ==
    /\ last.op = "commit_cached" /\ last.raised = "" /\ last.rows > 0
    /\ \E old \in last.gone, r \in table :
          /\ old.key = r.key /\ old.value # r.value
          /\ wrote[r.key] = NoPut


\* C39 -- Buffer shape: in every reachable state cache_values holds three
\* entries for each row counted by cache_row_count, also after a put_cached
\* of a value that cannot be serialized and after a commit_cached that
\* raised; after a successful commit_cached both are empty.
C39_BufferShape ==
    /\ [](\A s \in Sessions : Len(cache_values[s]) = 3 * cache_row_count[s])
    /\ [][ (Called("commit_cached") /\ last'.raised = "")
           => /\ cache_values'[last'.s] = <<>>
              /\ cache_row_count'[last'.s] = 0
         ]_vars

\* C39 witness: a commit_cached raised and left rows in the buffer.
C39_Witness ==
    /\ last.op = "commit_cached" /\ last.raised # ""
    /\ is_open[last.s]
    /\ cache_row_count[last.s] > 0
    /\ Len(cache_values[last.s]) = 3 * cache_row_count[last.s]


\* C34 -- When the wrapped function raises, the wrapper raises the same
\* exception with the handle closed and the table as it was: no record is
\* written under the key of the call, and a call with the same arguments, then
\* or later, invokes the function again.
C34_FailureNotMemoized ==
    [][ ( /\ Called("memoize") /\ last'.invoked
          /\ Func(last'.func, last'.args, last'.kwargs).raised # "" )
        => /\ last'.raised = Func(last'.func, last'.args, last'.kwargs).raised
           /\ table' = table
           /\ ~is_open'[last'.s]
           /\ \A ticks \in clock..Horizon :
                 wrapper(table', ticks, last'.func, last'.args, last'.kwargs).invoked
      ]_vars

\* C34 witness: a call invoked its function, which raised ValueError; no
\* record is stored under its key, while records of other calls are stored.
C34_Witness ==
    /\ last.op = "memoize" /\ last.invoked /\ last.raised = "ValueError"
    /\ RowsOf(table, last.key) = {}
    /\ \E r \in table : r.key \in MemoKeys
    /\ ~is_open[last.s]

\* The values stored under a key.
Stored(rows, key) == {_decode_value(r.value) : r \in RowsOf(rows, key)}

\* C38 -- setup_bw: every call invokes bitwarden_setup, whatever value of
\* "sealed.setup_done" was stored before it; after the call the flag is
\* stored, as True only if the setup of that call succeeded, and as False
\* when the call raised (a True stored before it has been reset).
C38_SetupEveryCall ==
    [][Called("setup_bw") =>
        /\ "bitwarden_setup" \in last'.called
        /\ Stored(table', SetupDoneKey) \in {{"True"}, {"False"}}
        /\ Stored(table', SetupDoneKey) = {"True"} => last'.bw.success /\ last'.raised = ""
        /\ last'.raised # "" => Stored(table', SetupDoneKey) = {"False"}]_vars

\* A call that found the flag stored as True invoked the setup, which
\* failed: the call raised and the flag is False.
C38_Witness ==
    /\ last.op = "setup_bw" /\ last.raised = "Exception"
    /\ "bitwarden_setup" \in last.called
    /\ Stored(last.gone, SetupDoneKey) = {"True"}
    /\ Stored(table, SetupDoneKey) = {"False"}

\* C37 -- login consults bitwarden_login when an email is given and
\* bitwarden_unlock when none is; it writes "bw.session_code" only when the
\* one it consulted succeeded, and then stores the session code it was
\* given; when the login or unlock failed the store is left as it was, so a
\* session code stored before stays readable.
C37_LoginWritesOnSuccess ==
    [][Called("login") =>
        LET consulted == IF last'.email # "" THEN last'.login_response
                         ELSE last'.unlock_response
        IN  /\ last'.called = IF last'.email # "" THEN {"bitwarden_login"}
                              ELSE {"bitwarden_unlock"}
            /\ RowsOf(table', SessionCodeKey) # RowsOf(table, SessionCodeKey)
                   => consulted.success
            /\ consulted.success => Stored(table', SessionCodeKey) = {consulted.data}
            /\ ~consulted.success =>
                   /\ table' = table
                   /\ last'.result = "False"
                   /\ get(table', <<>>, clock', SessionCodeKey, "None", FALSE).result
                          = get(table, <<>>, clock, SessionCodeKey, "None", FALSE).result]_vars

\* A login failed while a session code was stored: the code is still there.
C37_Witness ==
    /\ last.op = "login" /\ last.email # "" /\ ~last.login_response.success
    /\ last.unlock_response.success
    /\ last.result = "False" /\ last.gone = {}
    /\ Stored(table, SessionCodeKey) = {"'x'"}

\* The namespaces of the configuration and of the crash preference.
ConfigDot == <<"c", "o", "n", "f", "i", "g", ".">>
CrashDot == <<"c", "r", "a", "s", "h", ".">>

\* The rows of the configuration and of the crash preference.
Settings(rows) ==
    {r \in rows : StartsWith(r.key, ConfigDot) \/ StartsWith(r.key, CrashDot)}

\* C35 -- logout: once logout has returned, whatever bitwarden_logout
\* answered, no row whose key starts with "sealed" or "bw" is in the store
\* (the session code, the sync flag and the setup flag are gone), and the
\* rows under "config." and "crash." are the ones of before the call.
C35_LogoutClearsNamespaces ==
    [][Called("logout") =>
        /\ "bitwarden_logout" \in last'.called
        /\ \A r \in table' :
              ~StartsWith(r.key, SealedPrefix) /\ ~StartsWith(r.key, BwPrefix)
        /\ Settings(table') = Settings(table)]_vars

\* bitwarden_logout failed and logout answered success False: the session
\* code, the sync flag and the setup flag were removed all the same, and the
\* server URL and the crash preference are still stored.
C35_Witness ==
    /\ last.op = "logout" /\ ~last.bw.success /\ last.result = "False"
    /\ {r.key : r \in last.gone} = {SessionCodeKey, SyncedKey, SetupDoneKey}
    /\ {r.key : r \in table} = {ServerUrlKey, CrashEnabledKey}

\* The sync flag is stored and has not expired at `ticks`.
FlagLive(rows, ticks) == \E r \in RowsOf(rows, SyncedKey) : ~ExpiredAt(r, ticks)

\* C36 -- sync gating: list_items and list_trash invoke bitwarden_list_items
\* only when a session code is stored and the flag "sealed.synced" is live
\* at that moment; they invoke bitwarden_sync exactly when a session code is
\* stored and the flag is absent or expired; and they and refresh write the
\* flag only after a successful sync, as True, to expire 86400 seconds
\* after the call (and not more than a second sooner).
C36_SyncGating ==
    [][/\ Called("list_items") \/ Called("list_trash") =>
            /\ "bitwarden_list_items" \in last'.called =>
                   Stored(table, SessionCodeKey) # {} /\ FlagLive(table', clock')
            /\ "bitwarden_sync" \in last'.called <=>
                   Stored(table, SessionCodeKey) # {} /\ ~FlagLive(table, clock)
       /\ Called("list_items") \/ Called("list_trash") \/ Called("refresh") =>
            (RowsOf(table', SyncedKey) # RowsOf(table, SyncedKey) =>
                /\ "bitwarden_sync" \in last'.called /\ last'.bw.success
                /\ Stored(table', SyncedKey) = {"True"}
                /\ \A r \in RowsOf(table', SyncedKey) :
                      /\ ExpiredAt(r, clock + SyncTtlSeconds * TicksPerSecond)
                      /\ ~ExpiredAt(r, clock + (SyncTtlSeconds - 1) * TicksPerSecond))]_vars

\* The flag had expired when list_items was called with a session code
\* stored: the vault was synced, the flag written anew, and the items listed.
C36_Witness ==
    /\ last.op = "list_items" /\ clock >= Eve
    /\ last.called = {"bitwarden_sync", "bitwarden_list_items"}
    /\ \E r \in RowsOf(last.gone, SyncedKey) : ExpiredAt(r, clock)
    /\ Stored(table, SessionCodeKey) # {}
    /\ FlagLive(table, clock)

====
